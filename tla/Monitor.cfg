SPECIFICATION MonitorSpec
CONSTANTS
  Stale = 3
  Every = 2
  Hold = 4
  Repeat = 5
  Recovery = 2
  Gap = 4
  MaxFaults = 1
INVARIANT AlertAgreesWithMonitor
PROPERTIES OutageIsLong ServerIsReadAgain OutageIsTold
