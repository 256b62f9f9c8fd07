SPECIFICATION SilentPeerSpec
PROPERTIES
  FailureEndsSession
  Reconnects
