SPECIFICATION SetupSpec
CONSTANTS
  LegacyConfigs <- MCLegacyConfigs
  CellConfigs <- MCCellConfigs
  ArmsOf <- MCArmsOf
  NoSetup = NoSetup
  Corrupt = Corrupt
  Env = NoSetup
PROPERTIES FailureRollsBack NoBlindRetry
