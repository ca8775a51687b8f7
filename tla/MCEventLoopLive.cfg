CONSTANTS
  e1 = e1
  Endpoints = {e1}
  Authorized = {e1}
  Tailed = {e1}
  ChannelCapacity = 1
  Keys = {"ctrl_c", "q", "help", "close", "r", "p"}
  Recording = TRUE
SPECIFICATION Spec
PROPERTIES
  RefreshIsServed
  DirtyIsDrawn
  SpinnerClears
  QuitIsObeyed
