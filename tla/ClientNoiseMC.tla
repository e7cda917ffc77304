---------------------------- MODULE ClientNoiseMC ----------------------------
EXTENDS ClientNoise, TLC

\* The user's messages differ in nothing but their name.
Alike == Permutations(Mine)
=============================================================================
