SPECIFICATION TalkingPeerSpec
PROPERTY Reconnects
