------------------------------- MODULE Devices -------------------------------
(***************************************************************************)
(* The GPUs of a process: the runtime (CUDA, HIP, SYCL) says which ones    *)
(* the process has, the monitoring library (NVML, ROCm SMI, Level Zero) is *)
(* polled for those that the environment makes visible, and the n-th row   *)
(* of a poll goes to the n-th GPU. A GPU is its number on the node.        *)
(***************************************************************************)
EXTENDS Integers, Sequences, SequencesExt, FiniteSetsExt

CONSTANT Word

\* A variable that names devices: set, maybe to nothing, or not.
Names(list) == [set |-> TRUE, list |-> list]
NotSet      == [set |-> FALSE, list |-> <<>>]
All(count)  == [i \in 1..count |-> i - 1]

\* External: the runtime counts what is left of what is visible, nothing when the
\* variable is set to nothing. HIP takes ROCR_VISIBLE_DEVICES first and
\* HIP_VISIBLE_DEVICES among those.
Visible(v, among) ==
  IF v.set THEN [i \in DOMAIN v.list |-> among[v.list[i] + 1]] ELSE among
RuntimeDevices(count, visible, again) == Visible(again, Visible(visible, All(count)))

\* getgpu(): each device of the runtime, with the number that the environment has
\* in its place.
getgpu(devices, visible) ==
  [i \in DOMAIN devices |->
     [RT_GPU_ID |-> i - 1, bus |-> devices[i],
      GPU_ID |-> IF i <= Len(visible.list) THEN visible.list[i] ELSE i - 1]]

\* Mutant: all the devices of the node are polled, whatever is visible.
initialize_All(count, visible) == All(count)

\* initialize_nvml(), initialize_rocm_smi(): they can see all of the devices.
initialize(count, visible) == IF visible.set THEN visible.list ELSE All(count)

\* addGpu(), and updateGPU() with a row for each device that is polled.
addGpu(props) == [i \in DOMAIN props |-> [id |-> props[i].RT_GPU_ID, props |-> props[i],
                                          polled |-> <<>>]]
updateGPU(gpus, rows) ==
  [i \in DOMAIN gpus |-> [gpus[i] EXCEPT !.polled = Append(@, rows[i])]]

\* An engine: its type, the part of the device it is on (-1: the device), and
\* what the library says of it. Engines of other types are left out.
Known == {"all", "compute", "copy"}
Label(e) == <<e.type, e.part>>

\* The first snapshot of a label is kept; later ones are taken against it.
Activity(e, activityMap) ==
  IF Label(e) \notin DOMAIN activityMap THEN <<0, 1>>
  ELSE LET last == activityMap[Label(e)]
           span == (e.stamp - last.stamp) % Word
       IN  IF span = 0 THEN <<0, 1>> ELSE <<(e.active - last.active) % Word, span>>

\* insert(): what is there stays.
Insert(f, x, v) == [y \in DOMAIN f \cup {x} |-> IF y \in DOMAIN f THEN f[y] ELSE v]

\* One engine after the other, into the row of the device.
ReadEngine(state, e) ==
  IF e.type \notin Known THEN state
  ELSE [map |-> Insert(state.map, Label(e), e),
        row |-> Insert(state.row, Label(e), Activity(e, state.map))]

\* One device after the other; the map outlives the poll.
ReadDevice(state, engines) ==
  LET done == FoldLeft(ReadEngine, [map |-> state.map, row |-> <<>>], engines)
  IN  [map |-> done.map, rows |-> Append(state.rows, done.row)]
getgpustatus(activityMap, devices) ==
  FoldLeft(ReadDevice, [map |-> activityMap, rows |-> <<>>], devices)

-----------------------------------------------------------------------------
(* Properties.                                                             *)

\* The rows that are kept for a GPU are about the device whose bus it is on, and its
\* number is the one that is polled.
RowsAreOwnFor(count, visible, again) ==
  LET devices == RuntimeDevices(count, visible, again)
      gpus    == updateGPU(addGpu(getgpu(devices, visible)), initialize(count, visible))
  IN  \A i \in DOMAIN gpus : /\ Last(gpus[i].polled) = gpus[i].props.bus
                             /\ Last(gpus[i].polled) = gpus[i].props.GPU_ID

\* Whatever part of a node's GPUs a process is given, and in whatever order: there is
\* a row for every GPU of the runtime, which updateGPU() takes for granted, and it is
\* its own if only the variable that ZeroSum reads hides devices (zerosum_cuda.cpp
\* 47-158, nvml.cpp 31-64, rocmsmi.cpp 34-66, hardware.h 411-421).
GpusAlignedFor(count, visible, again) ==
  /\ Len(initialize(count, visible)) >= Len(RuntimeDevices(count, visible, again))
  /\ ~again.set => RowsAreOwnFor(count, visible, again)

\* Two polls of devices with the same engines: the second starts from the map that
\* the first has left.
Polled(first, second) == getgpustatus(getgpustatus(<<>>, first).map, second).rows

\* The k-th engine of device d shows the share of the time since its own first snapshot.
OwnShare(first, second, d, k) ==
  LET shown == Polled(first, second)[d][Label(second[d][k])]
  IN  /\ shown[2] > 0
      /\ shown = <<second[d][k].active - first[d][k].active,
                   second[d][k].stamp - first[d][k].stamp>>

\* An engine of a known type is shown, and with a share of its own unless a device
\* before it has an engine of the same label (sycl.cpp 156-222).
SharesShownFor(first, second) ==
  \A d \in DOMAIN second : \A k \in DOMAIN second[d] :
    /\ (second[d][k].type \in Known) <=>
         (Label(second[d][k]) \in DOMAIN Polled(first, second)[d])
    /\ (/\ second[d][k].type \in Known
        /\ \A o \in DOMAIN first : o < d => \A j \in DOMAIN first[o] :
             Label(first[o][j]) # Label(first[d][k])) => OwnShare(first, second, d, k)

\* What the comment says of the time stamps: only "to calculate delta time between two
\* snapshots of the same structure" (sycl.cpp 201-203).
SharesAsDocumentedFor(first, second) ==
  \A d \in DOMAIN second : \A k \in DOMAIN second[d] :
    second[d][k].type \in Known => OwnShare(first, second, d, k)

DevicesAlignedFor(count, visible, again, first, second) ==
  GpusAlignedFor(count, visible, again) /\ SharesShownFor(first, second)
=============================================================================
