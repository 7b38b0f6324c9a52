---------------------------- MODULE MCLookupCodec ----------------------------
(* Small instances of LookupCodec: the items an iterator may yield, and the *)
(* headers that were encoded elsewhere.                                     *)
EXTENDS LookupCodec, SequencesExt

CONSTANTS
  AppIds, Lens,    \* bounds of the iterator's items
  Sizes, MaxItems  \* bounds of the foreign headers

MCItems == [id : AppIds, len : Lens]

MCForeign ==
  [size : Sizes, index : BoundedSeq([id : AppIds, start : Sizes], MaxItems)]

===============================================================================
