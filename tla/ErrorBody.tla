-------------------------------- MODULE ErrorBody --------------------------------
(***************************************************************************)
(* What is kept of the body of an answer by which GoCD refuses a request:  *)
(* its message, the validation errors nested in its data, and a bounded    *)
(* raw text.                                                               *)
(*                                                                         *)
(* A text is a sequence of bytes, of which "more" continues the rune begun *)
(* before it.  JSON is given by its nodes: a function that has, under the  *)
(* path to each object, array or other value, the fields that the "errors" *)
(* of an object name, whether these are an object, and the keys of the     *)
(* other members, or the indices of an array.  Fields and keys are         *)
(* numbers, in the order of their names.                                   *)
(***************************************************************************)
EXTENDS Integers, FiniteSets, SequencesExt

CONSTANTS ReadLimit,  \* errorBodyReadLimit, 64 KiB
          TextLimit,  \* errorTextLimit, 2 KiB
          Depth       \* how deep encoding/json lets values nest, 10000

ASSUME LimitAssumption == /\ ReadLimit \in Nat /\ TextLimit \in Nat
                          /\ 0 < TextLimit /\ TextLimit < ReadLimit
ASSUME DepthAssumption == Depth \in Nat

Bytes == {"byte", "space", "more"}

IsTree(data) ==
    /\ <<>> \in DOMAIN data /\ DOMAIN data \subseteq Seq(Nat)
    /\ \A p \in DOMAIN data :
        /\ Len(p) <= Depth
        /\ data[p].errors \subseteq Nat  /\ IsFiniteSet(data[p].errors)
        /\ data[p].object \in BOOLEAN
        /\ data[p].members \subseteq Nat /\ IsFiniteSet(data[p].members)
        /\ \A k \in data[p].members : Append(p, k) \in DOMAIN data
        /\ p # <<>> => /\ Front(p) \in DOMAIN data
                       /\ Last(p) \in data[Front(p)].members

NoError == [code |-> 0, msg |-> <<>>, raw |-> <<>>, details |-> <<>>]

(* slices.Sorted, and the order of an array.                               *)
Sorted(keys) == [i \in 1 .. Cardinality(keys) |->
                    CHOOSE k \in keys : Cardinality({j \in keys : j <= k}) = i]

(* The errors of an object; those that are no object themselves are        *)
(* dropped, and not searched.                                              *)
OwnErrors(node) == IF node.object THEN node.errors ELSE {}

(* Mutant: an object that has errors of its own is not searched further.   *)
MutantDetailsFrom(data, p, below) ==
    LET fields == Sorted(OwnErrors(data[p]))
        keys   == Sorted(data[p].members)
    IN  IF fields # <<>> THEN [i \in DOMAIN fields |-> [path |-> p, field |-> fields[i]]]
        ELSE FlattenSeq([i \in DOMAIN keys |-> below[Append(p, keys[i])]])

(* An object's own errors, then those of what it or an array holds.        *)
DetailsFrom(data, p, below) ==
    LET fields == Sorted(OwnErrors(data[p]))
        keys   == Sorted(data[p].members)
    IN  [i \in DOMAIN fields |-> [path |-> p, field |-> fields[i]]]
        \o FlattenSeq([i \in DOMAIN keys |-> below[Append(p, keys[i])]])

ValidationDetails(data) ==
    LET details[p \in DOMAIN data] == DetailsFrom(data, p, details)
    IN  details[<<>>]

(* A detail as text, a byte per step of its path, then a two-byte rune.    *)
Rendered(details) ==
    FlattenSeq([i \in DOMAIN details |->
        [s \in 1 .. Len(details[i].path) + 1 |-> "byte"] \o <<"byte", "more">>])

(* Mutant: cut at the limit, wherever that is.                             *)
MutantTruncate(s, max) == IF Len(s) <= max THEN s ELSE SubSeq(s, 1, max)

(* truncate: back to a byte that begins a rune, and cut before it.         *)
Truncate(s, max) ==
    IF Len(s) <= max THEN s
    ELSE SubSeq(s, 1, Max({0} \cup {cut \in 1 .. max : s[cut + 1] # "more"}))

(* strings.TrimSpace.                                                      *)
TrimSpace(s) ==
    LET solid == {i \in 1 .. Len(s) : s[i] # "space"}
    IN  IF solid = {} THEN <<>> ELSE SubSeq(s, Min(solid), Max(solid))

(* What the limited reader gives.                                          *)
WasRead(b) == SubSeq(b.bytes, 1, Min({ReadLimit, Len(b.bytes)}))

(* GoCD's shape; a body is no JSON if more than white space is cut off.    *)
IsGoCDs(b) == /\ b.message # <<>>
              /\ \A i \in ReadLimit + 1 .. Len(b.bytes) : b.bytes[i] = "space"

(* readErrorBody; beside the message, the details it was made of.          *)
ReadErrorBody(b) ==
    LET details == IF IsGoCDs(b) THEN ValidationDetails(b.data) ELSE <<>>
    IN  [msg     |-> IF IsGoCDs(b) THEN Truncate(b.message \o Rendered(details), TextLimit)
                     ELSE <<>>,
         raw     |-> Truncate(TrimSpace(WasRead(b)), TextLimit),
         details |-> details]

(* What each error keeps: a sentinel nothing, a ConflictError the message, *)
(* an APIError the raw text too.                                           *)
StatusError(code, body) ==
    LET text == ReadErrorBody(body)
    IN  CASE code \in {401, 403, 404} -> [NoError EXCEPT !.code = code]
          [] code \in {409, 412}      -> [code |-> code, msg |-> text.msg, raw |-> <<>>,
                                          details |-> text.details]
          [] OTHER                    -> [code |-> code, msg |-> text.msg, raw |-> text.raw,
                                          details |-> text.details]
===============================================================================
