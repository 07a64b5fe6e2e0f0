---------------------------- MODULE MCRecvBuffer ----------------------------
(***************************************************************************)
(* Model-checking instance of RecvBuffer: bytes are scaled down to a       *)
(* header of two and packets of two, three and five, which is the longest  *)
(* that the buffer has room for behind a recv() of six; and headers that   *)
(* announce one byte more than that, none, or less than none.              *)
(***************************************************************************)
EXTENDS RecvBuffer

AnyLength == {-1, 0, 2, 3, 5, 6}

==============================================================================
