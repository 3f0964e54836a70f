CONSTANT MaxDevice = 6
SPECIFICATION Spec
INVARIANTS SinkIsTold ClaimIsLive TransportIsKnown
PROPERTY SoleTransportIsHeard
