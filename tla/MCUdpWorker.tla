---------------------------- MODULE MCUdpWorker ----------------------------
EXTENDS UdpWorker

CONSTANTS a1, a2, c1, c2, c3

OneID == {a1}
TwoIDs == {a1, a2}
TwoChains == {c1, c2}
ThreeChains == {c1, c2, c3}
=============================================================================
