---------------------------- MODULE RuleOutputChunk ----------------------------
(***************************************************************************)
(* How ruleoutput.Count turns one tenant's wanted metric names into the    *)
(* names of its queries: dedupe drops repeats and the empty name and       *)
(* sorts, then chunk cuts the sorted names into groups of at most maxNames *)
(* whose regex stays within maxBytes.                                      *)
(*                                                                         *)
(* A name is a number, its rank in sort.Strings order; Empty stands for    *)
(* "".  RegexLen gives len(regexp.QuoteMeta(n)) + 1.                       *)
(***************************************************************************)
EXTENDS Ordering, SequencesExt, Functions

CONSTANTS
    Names,          \* metric names, as ranks in sort order
    RegexLen,       \* [Names -> Nat \ {0}]
    DefaultNames,   \* 50 in the code
    DefaultBytes    \* 4000 in the code

Empty == 0

ASSUME ChunkAssumption ==
    /\ Names \subseteq Nat \ {Empty} /\ IsFiniteSet(Names)
    /\ RegexLen \in [Names -> Nat \ {0}]
    /\ DefaultNames \in Nat \ {0} /\ DefaultBytes \in Nat \ {0}

(* cfg.MaxNamesPerQuery <= 0 and cfg.MaxRegexBytes <= 0 take the default.  *)
Cap(configured, default) == IF configured <= 0 THEN default ELSE configured

(* dedupe drops the empty name and sorts.                                  *)
Dedupe(names) == Ascending(Range(names) \ {Empty})

(* Mutant: one name too many.                                              *)
MustCut_Late(s, l, maxNames, maxBytes) ==
    s.cur # <<>> /\ (Len(s.cur) > maxNames \/ s.size + l > maxBytes)

(* len(cur) > 0 && (len(cur) >= maxNames || size+l > maxBytes)             *)
MustCut(s, l, maxNames, maxBytes) ==
    s.cur # <<>> /\ (Len(s.cur) >= maxNames \/ s.size + l > maxBytes)

(* One iteration of chunk's loop: out are the finished groups, cur is the  *)
(* open one and size its regex length.                                     *)
AddName(s, n, maxNames, maxBytes) ==
    IF MustCut(s, RegexLen[n], maxNames, maxBytes)
    THEN [out |-> Append(s.out, s.cur), cur |-> <<n>>, size |-> RegexLen[n]]
    ELSE [s EXCEPT !.cur = Append(@, n), !.size = @ + RegexLen[n]]

(* Mutant: the group still open at the end is forgotten.                   *)
Chunk_ForgetsLast(names, maxNames, maxBytes) ==
    FoldLeft(LAMBDA s, n : AddName(s, n, maxNames, maxBytes),
             [out |-> <<>>, cur |-> <<>>, size |-> 0], names).out

Chunk(names, maxNames, maxBytes) ==
    LET s == FoldLeft(LAMBDA t, n : AddName(t, n, maxNames, maxBytes),
                      [out |-> <<>>, cur |-> <<>>, size |-> 0], names)
    IN  IF s.cur # <<>> THEN Append(s.out, s.cur) ELSE s.out
================================================================================
