SPECIFICATION FairSpec
CONSTANTS
  h1 = h1
  h2 = h2
  none = none
  Handle = {h1, h2}
  NoHandle = none
  NumLink = 2
  MaxEvt = 3
PROPERTY
  ConnectedUntilDisconnection
