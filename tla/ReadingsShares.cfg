SPECIFICATION Spec
CONSTANTS
  energy = energy
  power_w = power_w
  Energies <- MCEnergies
  Gauges <- MCGauges
  MaxFds = 10
  MaxRefresh = 2
  Word <- MCWord
  Placements <- MCPlacements
  Launches <- MCLaunches
  Ticks <- MCTicks
  Samples <- MCSamples
  Visibilities <- MCVisibilities
  Calls <- MCCalls
  Dumps <- MCDumps
  Machines <- MCMachines
  Jobs <- MCJobs
INVARIANT SharesAsDocumented
