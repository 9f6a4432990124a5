SPECIFICATION Spec
CONSTANTS
  Windows = TRUE
  Listings <- Directories
  Plugins <- PluginNames
  Loads <- Libraries
  Formats <- Known
  Wanted <- Asked
  NONE = NONE
INVARIANTS FirstPluginWins SaidIsTrue LaterPluginsAreHarmless
CHECK_DEADLOCK FALSE
