----------------------------- MODULE LongFilters -----------------------------
(***************************************************************************)
(* list_resources_with_long_filters: Neutron is asked for the resources an *)
(* attribute of which has one of many values.  When that makes the URI too *)
(* long, neutronclient raises RequestURITooLong, which says by how much,   *)
(* and the values are asked for in chunks that are computed from it.  The  *)
(* values are what they are long: value number i has lens[i] characters.   *)
(***************************************************************************)
EXTENDS Integers, Sequences, SequencesExt, FiniteSetsExt

CONSTANTS
  MaxValues,   \* bound: values asked for
  MaxLen,      \* bound: characters of a value
  KeyLen,      \* len(filter_attr)
  Limit,       \* characters a URI may have
  MaxBase      \* bound: characters of the URI without the filter

VARIABLES
  lens,        \* filter_values
  kind,        \* what holds them: a tuple can be sliced, a frozenset cannot
  base,        \* characters of the rest of the URI
  step,        \* "try" the values at once, "loop" over chunks; how it ended
  from,        \* i of the loop
  chunk,       \* chunk_size
  got          \* the values whose resources have been listed

vars == <<lens, kind, base, step, from, chunk, got>>

Init ==
  /\ lens \in UNION {[1 .. n -> 1 .. MaxLen] : n \in 1 .. MaxValues}
  /\ kind \in {"tuple", "frozenset"}
  /\ base \in 0 .. MaxBase
  /\ step = "try" /\ from = 0 /\ chunk = 0 /\ got = <<>>

-----------------------------------------------------------------------------
N == Len(lens)
Values == [i \in 1 .. N |-> i]

\* <key>=<value>&, for one value and for several
ParamLen(i) == KeyLen + lens[i] + 2
FilterLen(vs) ==
  LET sum[i \in 0 .. Len(vs)] ==
        IF i = 0 THEN 0 ELSE sum[i - 1] + ParamLen(vs[i])
  IN  sum[Len(vs)]

Excess(vs) == base + FilterLen(vs) - Limit

AllowedLen == FilterLen(Values) - Excess(Values)
FilterMaxLen == KeyLen + Max(ToSet(lens)) + 2
ChunkSizeOfMean == AllowedLen \div (FilterLen(Values) \div N)   \* a mutant
ChunkSize == AllowedLen \div FilterMaxLen

\* filter_values[i:i + chunk_size]
Slice == SubSeq(Values, from + 1, IF from + chunk < N THEN from + chunk ELSE N)

-----------------------------------------------------------------------------
Answered(vs) == got' = got \o vs
Ends(s) == step' = s /\ UNCHANGED <<lens, kind, base, from, chunk>>

\* list_method with all the values: it answers, or fails.
Try ==
  /\ step = "try"
  /\ \/ Excess(Values) <= 0 /\ Answered(Values) /\ Ends("done")
     \/ Ends("error") /\ UNCHANGED got

\* RequestURITooLong.  A chunk size of zero is an error of range, and with a
\* negative one the range is empty.
TooLong ==
  /\ step = "try" /\ Excess(Values) > 0
  /\ chunk' = ChunkSize
  /\ step' = CASE ChunkSize > 0 -> "loop"
               [] ChunkSize = 0 -> "error"
               [] ChunkSize < 0 -> "done"
  /\ UNCHANGED <<lens, kind, base, from, got>>

\* One chunk: list_method answers, or fails, or the URI is too long again; a
\* frozenset cannot be sliced.
Chunk ==
  /\ step = "loop" /\ from < N
  /\ \/ /\ kind = "tuple" /\ Excess(Slice) <= 0
        /\ Answered(Slice)
        /\ from' = from + chunk
        /\ UNCHANGED <<lens, kind, base, step, chunk>>
     \/ kind = "tuple" /\ Excess(Slice) > 0 /\ Ends("refused") /\ UNCHANGED got
     \/ Ends("error") /\ UNCHANGED got

Return ==
  /\ step = "loop" /\ from >= N
  /\ Ends("done") /\ UNCHANGED got

Next == Try \/ TooLong \/ Chunk \/ Return
Spec == Init /\ [][Next]_vars

-----------------------------------------------------------------------------
TypeOK ==
  /\ lens \in Seq(1 .. MaxLen)
  /\ kind \in {"tuple", "frozenset"} /\ base \in 0 .. MaxBase
  /\ step \in {"try", "loop", "done", "refused", "error"}
  /\ from \in Nat /\ chunk \in Int /\ got \in Seq(1 .. N)

(***************************************************************************)
(* As long as the other conditions leave room for one value, splitting is  *)
(* exact: no chunk is refused for its length, and when the list is         *)
(* returned every value has been asked for once, in its place.             *)
(***************************************************************************)
AllAskedFor ==
  base + FilterMaxLen <= Limit =>
    /\ step # "refused"
    /\ step = "done" => got = Values
=============================================================================
