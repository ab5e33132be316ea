------------------------------ MODULE Padding ------------------------------
(***************************************************************************)
(* intra/doh/padding.go, by the lengths of messages in compressed form.  A *)
(* query is "plain" (no OPT resource), "edns" (an OPT resource without a   *)
(* padding option) or "padded" (with one).                                 *)
(***************************************************************************)
EXTENDS Naturals

PaddingBlockSize     == 128
kOptRrHeaderLen      == 11
kOptPaddingHeaderLen == 4

computePaddingSize_Unreduced(msgLen, blockSize) ==
  blockSize - ((msgLen + kOptPaddingHeaderLen) % blockSize)

computePaddingSize(msgLen, blockSize) ==
  LET padSize == blockSize - ((msgLen + kOptPaddingHeaderLen) % blockSize)
  IN  padSize % blockSize

(* The length of a query with its OPT resource, which is added if missing. *)
CompressedLen(kind, len) == IF kind = "plain" THEN len + kOptRrHeaderLen ELSE len

(* The length of what AddEdnsPadding returns for a query of this length.   *)
AddEdnsPadding(kind, len) ==
  IF kind = "padded" THEN len
  ELSE LET msgLen == CompressedLen(kind, len)
       IN  msgLen + kOptPaddingHeaderLen + computePaddingSize(msgLen, PaddingBlockSize)
============================================================================
