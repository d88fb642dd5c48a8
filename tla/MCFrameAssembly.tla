-------------------------- MODULE MCFrameAssembly --------------------------
(* Model checking FrameAssembly with small frames: 2 bytes in an initial   *)
(* frame, 1 in a continuation frame, at most 4 in a message; hosts try 5.  *)
EXTENDS FrameAssembly, TLC

CONSTANTS c1, c2

ChannelSymmetry == Permutations({c1, c2})

SmallBytes == (0 .. MaxMessages) \X (0 .. 5)
=============================================================================
