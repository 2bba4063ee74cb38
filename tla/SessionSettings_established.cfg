CONSTANTS
  Servers = {"x"}
  SettingsSessions = {"s"}
  Rules = {"ask", "allow"}
  PermissionSets = {"p", "q"}
  MaxVersion = 2
SPECIFICATION SettingsSpec
CHECK_DEADLOCK FALSE
PROPERTIES
  EstablishedServersAreFixed
