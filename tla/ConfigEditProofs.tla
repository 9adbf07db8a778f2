-------------------------- MODULE ConfigEditProofs --------------------------
(***************************************************************************)
(* Proofs about ConfigEdit, for every set of calls, editors and answers,   *)
(* either document, and any number of changes.  Whatever GoCD's requests   *)
(* do, each fact about a call survives because the log only grows, and     *)
(* because a call adds to it at most once, while its request is arriving.  *)
(***************************************************************************)
EXTENDS ConfigEdit, SequenceTheorems, TLAPS

(* What an outcome of call c, on its way or returned, says of the log.     *)
Settled(c, code) ==
    /\ Success(code) /\ ~Redirected(c) => Acted(c)
    /\ Refused(code) => ~Acted(c) /\ c \notin arriving
    /\ code = 412 => /\ request[c] # NoRequest
                     /\ Len(log) > request[c].tag /\ log[request[c].tag + 1].by # c

(* An update sends the ETag its editor was given.                          *)
GivenOK(c) == /\ request[c].tag \in ETagsOf(EditorOf[c])
              /\ request[c].given = request[c].tag

CallOK(c) ==
    /\ request[c] = NoRequest => /\ answer[c] = NoAnswer /\ c \notin arriving
                                 /\ result[c] \in {Pending, InvalidArgument} /\ ~Acted(c)
    /\ request[c] # NoRequest => /\ request[c].op \in Ops \cup {"get"}
                                 /\ result[c] # InvalidArgument
                                 /\ request[c].op = "update" => GivenOK(c)
    /\ c \in arriving => /\ ~Acted(c) /\ ~Redirected(c) /\ answer[c] = NoAnswer
                         /\ result[c] \in {Pending, NoResponse}
    /\ result[c] # Pending => answer[c] = NoAnswer
    /\ result[c] = Pending => returned[c] = NoTag
    /\ \A code \in {answer[c].code, result[c]} : Settled(c, code)

(* An entry of the log follows from the version it found.                  *)
EntryOK(n) ==
    /\ log[n].op = "update" => /\ n > 1 /\ log[n].tag = n - 1 /\ log[n - 1].op # "delete"
    /\ log[n].op = "update" /\ log[n].by \in Calls =>
           /\ n - 1 \in ETagsOf(EditorOf[log[n].by])
           /\ request[log[n].by].given = n - 1
    /\ log[n].by \in Calls => \A m \in 1..Len(log) : m # n => log[m].by # log[n].by

IInv == /\ TypeOK
        /\ \A n \in 1..Len(log) : EntryOK(n)
        /\ \A c \in Calls : CallOK(c)

LEMMA InitInv == Init => IInv
<1> SUFFICES ASSUME Init PROVE IInv
  OBVIOUS
<1>1. TypeOK
  BY EditorAssumption DEF Init, TypeOK, NoRequest, NoAnswer, NoTag, NoResponse
<1>3. Len(log) = 0
  BY DEF Init
<1>2. ASSUME NEW c \in Calls PROVE CallOK(c)
  <2>1. /\ answer[c] = NoAnswer /\ answer[c].code = 0 /\ result[c] = -1
        /\ request[c] = NoRequest /\ c \notin arriving /\ ~Acted(c) /\ returned[c] = NoTag
    BY <1>3 DEF Init, NoAnswer, NoResponse, Pending, Acted
  <2>2. \A code \in {0, -1} : Settled(c, code)
    <3>1. \A code \in {0, -1} : ~Success(code) /\ ~Refused(code) /\ code # 412
      BY DEF Refused, Success, Undecided, NoResponse, Pending
    <3> QED
      BY <3>1 DEF Settled
  <2> QED
    BY <2>1, <2>2 DEF CallOK, Pending, Success
<1> QED
  BY <1>1, <1>2, <1>3 DEF IInv

(* The log keeps what it holds.                                            *)
Grows == Len(log) <= Len(log)' /\ \A n \in 1..Len(log) : log'[n] = log[n]

(* What editors were given they keep, and what a call that acted was given *)
(* stays.                                                                  *)
Kept == /\ \A e \in Editors : ETagsOf(e) \subseteq ETagsOf(e)'
        /\ \A c \in Calls : Acted(c) => request'[c].given = request[c].given

LEMMA NothingGiven ==
    ASSUME read' = read, returned' = returned, TypeOK,
           \A c \in Calls : Acted(c) => request'[c].given = request[c].given
    PROVE  Kept /\ \A e \in Editors : ETagsOf(e)' = ETagsOf(e)
  BY DEF Kept, ETagsOf, CallsOf

(* A call whose own request, answer and result stand still.                *)
LEMMA BystanderKept ==
    ASSUME NEW c \in Calls, TypeOK, CallOK(c), Len(log') \in Nat, Grows, Acted(c)' = Acted(c),
           Kept, returned'[c] = returned[c],
           request'[c] = request[c], answer'[c] = answer[c], result'[c] = result[c],
           c \in arriving' => c \in arriving
    PROVE  CallOK(c)'
<1>1. request[c].tag \in 0..Len(log) /\ Len(log) \in Nat
  BY DEF TypeOK
<1>2. ASSUME NEW code, Settled(c, code) PROVE Settled(c, code)'
  BY <1>1, <1>2 DEF Settled, Redirected, Grows
<1> QED
  BY <1>2, EditorAssumption DEF CallOK, GivenOK, Kept, Redirected, TypeOK

-------------------------------------------------------------------------------
(* Steps that leave the log alone *)

LEMMA LogKept ==
    ASSUME log' = log, TypeOK, \A n \in 1..Len(log) : EntryOK(n), Kept
    PROVE  /\ \A n \in 1..Len(log') : EntryOK(n)'
           /\ Grows /\ Len(log') \in Nat
           /\ \A c \in Calls : Acted(c)' = Acted(c)
<1>1. Len(log) \in Nat
  BY DEF TypeOK
<1>2. ASSUME NEW n \in 1..Len(log) PROVE EntryOK(n)'
  <2>1. EntryOK(n) /\ (log[n].by \in Calls => Acted(log[n].by))
    BY DEF Acted
  <2> QED
    BY <2>1, EditorAssumption DEF EntryOK, Kept
<1> QED
  BY <1>1, <1>2 DEF Grows, Acted

LEMMA RefuseStep ==
    ASSUME IInv, NEW c \in Calls, NEW in \in InputsOf(c), Refuse(c, in) PROVE IInv'
<1>1. TypeOK'
  BY DEF Refuse, IInv, TypeOK
<1>2. \A n \in 1..Len(log') : EntryOK(n)'
  BY NothingGiven, LogKept DEF Refuse, IInv
<1>3. CallOK(c)'
  <2>1. /\ answer'[c] = NoAnswer /\ answer'[c].code = 0 /\ result'[c] = -2
        /\ request'[c] = NoRequest /\ c \notin arriving' /\ ~Acted(c)'
    BY DEF Refuse, Ready, IInv, TypeOK, CallOK, Acted, NoAnswer, NoResponse, InvalidArgument
  <2>2. \A code \in {0, -2} : Settled(c, code)'
    BY <2>1 DEF Settled, Refused, Success, Undecided, NoResponse, Pending
  <2> QED
    BY <2>1, <2>2 DEF CallOK, InvalidArgument, Pending
<1>4. ASSUME NEW d \in Calls \ {c} PROVE CallOK(d)'
  <2>1. request'[d] = request[d] /\ answer'[d] = answer[d] /\ result'[d] = result[d]
    BY DEF Refuse, IInv, TypeOK
  <2>2. log' = log /\ (d \in arriving' => d \in arriving)
    BY DEF Refuse
  <2>3. Kept /\ returned' = returned
    BY NothingGiven DEF Refuse, IInv
  <2> QED
    BY <2>1, <2>2, <2>3, LogKept, BystanderKept DEF IInv
<1> QED
  BY <1>1, <1>2, <1>3, <1>4 DEF IInv

LEMMA SendStep ==
    ASSUME IInv, NEW c \in Calls, NEW in \in InputsOf(c), Send(c, in) PROVE IInv'
<1>0. in.op \in Ops /\ in.tag \in ETagsOf(EditorOf[c])
  BY DEF InputsOf
<1>1. IfMatch(in) \in 0..Len(log) /\ Given(in) \in 0..Len(log)
  BY <1>0, EditorAssumption DEF IfMatch, Given, ETagsOf, CallsOf, IInv, TypeOK, NoTag
<1>2. TypeOK'
  BY <1>0, <1>1 DEF Send, IInv, TypeOK, Ops
<1>9. Kept /\ ETagsOf(EditorOf[c])' = ETagsOf(EditorOf[c])
  <2>1. \A d \in Calls : Acted(d) => request'[d].given = request[d].given
    BY DEF Send, Ready, IInv, TypeOK, CallOK
  <2> QED
    BY <2>1, NothingGiven, EditorAssumption DEF Send, IInv
<1>3. \A n \in 1..Len(log') : EntryOK(n)'
  BY <1>9, LogKept DEF Send, IInv
<1>4. in.op = "update" => IfMatch(in) \in ETagsOf(EditorOf[c]) /\ Given(in) = IfMatch(in)
  BY <1>0 DEF IfMatch, Given
<1>5. /\ request'[c] # NoRequest /\ request'[c].op = in.op /\ request'[c].tag = IfMatch(in)
      /\ request'[c].given = Given(in)
  BY <1>0 DEF Send, IInv, TypeOK, NoRequest, Ops
<1>6. CallOK(c)'
  <2>1. /\ answer'[c] = NoAnswer /\ answer'[c].code = 0 /\ result'[c] = -1
        /\ ~Acted(c)' /\ (in.op = "update" => GivenOK(c)') /\ returned'[c] = NoTag
    BY <1>4, <1>5, <1>9 DEF GivenOK, Send, Ready, IInv, CallOK, Acted, NoAnswer, NoResponse, Pending
  <2>2. \A code \in {0, -1} : Settled(c, code)'
    BY DEF Settled, Refused, Success, Undecided, NoResponse, Pending
  <2> QED
    BY <1>0, <1>5, <2>1, <2>2 DEF CallOK, Redirected, Ops, Pending, InvalidArgument, Success
<1>7. ASSUME NEW d \in Calls \ {c} PROVE CallOK(d)'
  <2>1. request'[d] = request[d] /\ answer'[d] = answer[d] /\ result'[d] = result[d]
    BY DEF Send, IInv, TypeOK
  <2>2. log' = log /\ (d \in arriving' => d \in arriving)
    BY DEF Send
  <2>3. returned' = returned
    BY DEF Send
  <2> QED
    BY <1>9, <2>1, <2>2, <2>3, LogKept, BystanderKept DEF IInv
<1> QED
  BY <1>2, <1>3, <1>6, <1>7 DEF IInv

LEMMA ReturnStep == ASSUME IInv, NEW c \in Calls, Return(c) PROVE IInv'
<1>1. answer[c].code \in Codes \cup {NoResponse} /\ answer[c].etag \in 0..Len(log)
  BY DEF IInv, TypeOK
<1>2. Kept
  <2>1. read' = read /\ \A d \in Calls : returned[d] # NoTag => returned'[d] = returned[d]
    BY DEF Return, Waiting, IInv, TypeOK, CallOK
  <2>2. \A e \in Editors : ETagsOf(e) \subseteq ETagsOf(e)'
    BY <2>1 DEF ETagsOf, CallsOf
  <2> QED
    BY <2>2 DEF Kept, Return
<1>4. TypeOK'
  <2>1. returned' \in [Calls -> 0..Len(log)]
    BY <1>1 DEF Return, IInv, TypeOK
  <2>2. result' \in [Calls -> Codes \cup {Pending, InvalidArgument, NoResponse}]
    BY <1>1 DEF Return, IInv, TypeOK
  <2> QED
    BY <2>1, <2>2 DEF Return, IInv, TypeOK, NoAnswer, NoTag, NoResponse
<1>5. log' = log /\ \A n \in 1..Len(log') : EntryOK(n)'
  BY <1>2, LogKept DEF Return, IInv
<1>6. CallOK(c)'
  <2>1. answer'[c] = NoAnswer /\ answer'[c].code = 0 /\ result'[c] = answer[c].code
    BY DEF Return, IInv, TypeOK, NoAnswer, NoResponse
  <2>2. Settled(c, 0)' /\ Settled(c, answer[c].code)
    BY DEF Settled, Refused, Success, Undecided, NoResponse, Pending, IInv, CallOK
  <2>3. ASSUME NEW code, Settled(c, code) PROVE Settled(c, code)'
    BY <2>3, <1>5 DEF Return, Settled, Redirected, Acted
  <2>4. \A code \in {answer'[c].code, result'[c]} : Settled(c, code)'
    BY <2>1, <2>2, <2>3
  <2>5. c \notin arriving /\ request[c] # NoRequest
    BY DEF Return, Waiting, IInv, CallOK
  <2>6. answer[c].code # InvalidArgument
    BY <1>1, CodesAssumption DEF NoResponse, InvalidArgument
  <2>7. request[c].op = "update" => GivenOK(c)'
    BY <1>2, <2>5, EditorAssumption DEF IInv, CallOK, GivenOK, Kept, Return
  <2>8. request'[c] = request[c] /\ arriving' = arriving /\ request[c].op \in Ops \cup {"get"}
    BY <2>5 DEF Return, IInv, CallOK
  <2>9. answer[c].code # Pending
    BY <1>1, CodesAssumption DEF NoResponse, Pending
  <2> QED
    BY <2>1, <2>4, <2>5, <2>6, <2>7, <2>8, <2>9 DEF CallOK
<1>7. ASSUME NEW d \in Calls \ {c} PROVE CallOK(d)'
  <2>1. /\ request'[d] = request[d] /\ answer'[d] = answer[d] /\ result'[d] = result[d]
        /\ returned'[d] = returned[d]
    BY DEF Return, IInv, TypeOK
  <2>2. d \in arriving' => d \in arriving
    BY DEF Return
  <2> QED
    BY <1>2, <1>5, <2>1, <2>2, LogKept, BystanderKept DEF IInv
<1> QED
  BY <1>4, <1>5, <1>6, <1>7 DEF IInv

LEMMA GiveUpStep == ASSUME IInv, NEW c \in Calls, GiveUp(c) PROVE IInv'
<1>1. Kept /\ returned' = returned
  BY NothingGiven DEF GiveUp, IInv
<1>2. TypeOK'
  BY DEF GiveUp, IInv, TypeOK, NoAnswer, NoTag, NoResponse
<1>3. log' = log /\ \A n \in 1..Len(log') : EntryOK(n)'
  BY <1>1, LogKept DEF GiveUp, IInv
<1>4. CallOK(c)'
  <2>1. answer'[c] = NoAnswer /\ answer'[c].code = 0 /\ result'[c] = 0
    BY DEF GiveUp, IInv, TypeOK, NoAnswer, NoResponse
  <2>2. Settled(c, 0)'
    BY DEF Settled, Refused, Success, Undecided, NoResponse, Pending
  <2>3. \A code \in {answer'[c].code, result'[c]} : Settled(c, code)'
    BY <2>1, <2>2
  <2>4. /\ request'[c] = request[c] /\ request[c] # NoRequest
        /\ request[c].op \in Ops \cup {"get"}
        /\ request[c].op = "update" => GivenOK(c)'
    BY <1>1, EditorAssumption DEF GiveUp, Waiting, IInv, CallOK, GivenOK, Kept
  <2>5. c \in arriving' => ~Acted(c)' /\ ~Redirected(c)'
    BY <1>1, <1>3, LogKept DEF GiveUp, Redirected, IInv, CallOK
  <2> QED
    BY <2>3, <2>4, <2>5, <2>1 DEF CallOK, Pending, InvalidArgument, NoResponse
<1>5. ASSUME NEW d \in Calls \ {c} PROVE CallOK(d)'
  <2>1. request'[d] = request[d] /\ answer'[d] = answer[d] /\ result'[d] = result[d]
    BY DEF GiveUp, IInv, TypeOK
  <2>2. d \in arriving' => d \in arriving
    BY DEF GiveUp
  <2> QED
    BY <1>1, <1>3, <2>1, <2>2, LogKept, BystanderKept DEF IInv
<1> QED
  BY <1>2, <1>3, <1>4, <1>5 DEF IInv

LEMMA GetConfigStep == ASSUME IInv, NEW e \in Editors, GetConfig(e) PROVE IInv'
<1>1. Kept /\ returned' = returned
  BY DEF GetConfig, IInv, TypeOK, Kept, ETagsOf, CallsOf
<1>2. Version \in 1..Len(log)
  BY DEF GetConfig, Version, NoTag, IInv, TypeOK
<1>3. TypeOK'
  BY <1>2 DEF GetConfig, IInv, TypeOK
<1>4. log' = log /\ \A n \in 1..Len(log') : EntryOK(n)'
  BY <1>1, LogKept DEF GetConfig, IInv
<1>5. ASSUME NEW c \in Calls PROVE CallOK(c)'
  BY <1>1, <1>4, LogKept, BystanderKept DEF GetConfig, IInv
<1> QED
  BY <1>3, <1>4, <1>5 DEF IInv

LEMMA LoseStep == ASSUME IInv, NEW c \in Calls, Lose(c) PROVE IInv'
<1>1. Kept /\ returned' = returned
  BY NothingGiven DEF Lose, IInv
<1>2. TypeOK'
  BY DEF Lose, IInv, TypeOK
<1>3. log' = log /\ \A n \in 1..Len(log') : EntryOK(n)'
  BY <1>1, LogKept DEF Lose, IInv
<1>4. ASSUME NEW d \in Calls PROVE CallOK(d)'
  BY <1>1, <1>3, LogKept, BystanderKept DEF Lose, IInv
<1> QED
  BY <1>2, <1>3, <1>4 DEF IInv

LEMMA RedirectStep ==
    ASSUME IInv, NEW c \in Calls, NEW code \in Codes, Redirect(c, code) PROVE IInv'
<1>1. Kept /\ returned' = returned
  BY NothingGiven DEF Redirect, IInv, TypeOK
<1>2. Version \in 0..Len(log)
  BY DEF Version, NoTag, IInv, TypeOK
<1>3. request' \in [Calls -> [op : Ops \cup {"none", "get"}, given : 0..Len(log),
                              tag : 0..Len(log)]]
  BY DEF Redirect, IInv, TypeOK
<1>4. TypeOK'
  BY <1>2, <1>3 DEF Redirect, Answer, IInv, TypeOK, NoTag
<1>5. log' = log /\ \A n \in 1..Len(log') : EntryOK(n)'
  BY <1>1, LogKept DEF Redirect, IInv
<1>6. ASSUME NEW d \in Calls \ {c} PROVE CallOK(d)'
  <2>1. request'[d] = request[d] /\ answer'[d] = answer[d] /\ result'[d] = result[d]
    BY DEF Redirect, Answer, IInv, TypeOK
  <2>2. d \in arriving' => d \in arriving
    BY DEF Redirect
  <2> QED
    BY <1>1, <1>5, <2>1, <2>2, LogKept, BystanderKept DEF IInv
<1>7. CallOK(c)'
  <2>1. /\ request'[c].op = "get" /\ request'[c] # NoRequest /\ c \notin arriving'
        /\ result'[c] = result[c] /\ result[c] \in {-1, 0} /\ ~Acted(c)'
        /\ result[c] = Pending => returned[c] = NoTag
        /\ code # 412
    BY DEF Redirect, IInv, TypeOK, CallOK, NoRequest, Pending, NoResponse, Acted
  <2>2. \/ answer'[c].code = code /\ result[c] = -1
        \/ answer'[c] = NoAnswer
    BY DEF Redirect, Answer, Waiting, IInv, TypeOK, CallOK, Pending
  <2>3. \A o \in {code, -1, 0} : Settled(c, o)'
    BY <2>1 DEF Settled, Redirected, Refused, Success, Undecided, NoResponse, Pending
  <2>4. \A o \in {answer'[c].code, result'[c]} : Settled(c, o)'
    BY <2>1, <2>2, <2>3 DEF NoAnswer, NoResponse
  <2>6. result'[c] # Pending => answer'[c] = NoAnswer
    BY <2>1, <2>2 DEF Pending
  <2> QED
    BY <1>1, <2>1, <2>4, <2>6 DEF CallOK, Ops, Pending, InvalidArgument, NoResponse
<1> QED
  BY <1>4, <1>5, <1>6, <1>7 DEF IInv

-------------------------------------------------------------------------------
(* Steps that change the document *)

LEMMA Recorded ==
    ASSUME NEW change \in [op : Ops, by : Calls \cup {Elsewhere}, tag : Nat],
           TypeOK, Record(change)
    PROVE  /\ log' \in Seq([op : Ops, by : Calls \cup {Elsewhere}, tag : Nat])
           /\ Len(log') = Len(log) + 1 /\ log'[Len(log) + 1] = change
           /\ Grows /\ Len(log') \in Nat
           /\ change.op = "update" =>
                  Len(log) > 0 /\ change.tag = Len(log) /\ log[Len(log)].op # "delete"
           /\ \A c \in Calls : Acted(c)' <=> Acted(c) \/ change.by = c
<1>1. log' = Append(log, change) /\ log \in Seq([op : Ops, by : Calls \cup {Elsewhere}, tag : Nat])
  BY DEF Record, TypeOK
<1>2. /\ Len(log') = Len(log) + 1 /\ log'[Len(log) + 1] = change
      /\ \A n \in 1..Len(log) : log'[n] = log[n]
      /\ Len(log) \in Nat
  BY <1>1
<1>3. change.op = "update" =>
         Len(log) > 0 /\ change.tag = Len(log) /\ log[Len(log)].op # "delete"
  BY <1>1 DEF Record, Fits, Version, NoTag
<1>4. ASSUME NEW c \in Calls PROVE Acted(c)' <=> Acted(c) \/ change.by = c
  BY <1>2 DEF Acted
<1> QED
  BY <1>1, <1>2, <1>3, <1>4 DEF Grows

(* A new entry fits the ones before it when its call has not acted.        *)
LEMMA EntriesKept ==
    ASSUME IInv, NEW change \in [op : Ops, by : Calls \cup {Elsewhere}, tag : Nat],
           Record(change), UNCHANGED <<request, read, returned>>,
           change.by \in Calls =>
               /\ ~Acted(change.by)
               /\ change.op = "update" =>
                      /\ change.tag \in ETagsOf(EditorOf[change.by])
                      /\ request[change.by].given = change.tag
    PROVE  \A n \in 1..Len(log') : EntryOK(n)'
<1> USE DEF IInv
<1>0. \A e \in Editors : ETagsOf(e)' = ETagsOf(e)
  BY DEF ETagsOf, CallsOf
<1>1. /\ Len(log') = Len(log) + 1 /\ log'[Len(log) + 1] = change /\ Len(log) \in Nat
      /\ \A n \in 1..Len(log) : log'[n] = log[n]
      /\ change.op = "update" =>
             Len(log) > 0 /\ change.tag = Len(log) /\ log[Len(log)].op # "delete"
  <2>1. Len(log) \in Nat
    BY DEF TypeOK
  <2> QED
    BY <2>1, Recorded DEF Grows
<1>2. ASSUME NEW n \in 1..Len(log) PROVE EntryOK(n)'
  <2>1. /\ log'[n] = log[n] /\ n # Len(log) + 1
        /\ n > 1 => log'[n - 1] = log[n - 1]
    BY <1>1
  <2>2. ASSUME log[n].by \in Calls, NEW m \in 1..Len(log'), m # n PROVE log'[m].by # log[n].by
    <3>1. CASE m = Len(log) + 1
      BY <1>1, <2>2, <3>1 DEF Acted
    <3>2. CASE m \in 1..Len(log)
      BY <1>1, <2>2, <3>2 DEF EntryOK
    <3> QED
      BY <1>1, <3>1, <3>2
  <2> QED
    BY <1>0, <2>1, <2>2, EditorAssumption DEF EntryOK
<1>3. ASSUME NEW n, n = Len(log) + 1 PROVE EntryOK(n)'
  <2>1. /\ log'[n] = change /\ n - 1 = Len(log)
        /\ Len(log) > 0 => log'[n - 1] = log[Len(log)]
    BY <1>1, <1>3
  <2>2. ASSUME change.by \in Calls, NEW m \in 1..Len(log'), m # n
        PROVE  log'[m].by # change.by
    BY <1>1, <1>3, <2>2 DEF Acted
  <2> QED
    BY <1>0, <1>1, <1>3, <2>1, <2>2, EditorAssumption DEF EntryOK
<1> QED
  <2>1. \A n \in 1..Len(log') : n \in 1..Len(log) \/ n = Len(log) + 1
    BY <1>1
  <2>2. ASSUME NEW n \in 1..Len(log') PROVE EntryOK(n)'
    <3>1. CASE n = Len(log) + 1
      BY <1>3, <3>1
    <3> QED
      BY <1>2, <2>1, <3>1
  <2> QED
    BY <2>2

LEMMA EditElsewhereStep == ASSUME IInv, NEW op \in Ops, EditElsewhere(op) PROVE IInv'
<1> DEFINE change == [op |-> op, by |-> Elsewhere,
                      tag |-> IF op = "update" THEN Version ELSE NoTag]
<1>1. change \in [op : Ops, by : Calls \cup {Elsewhere}, tag : Nat] /\ Record(change)
  BY DEF EditElsewhere, Version, NoTag, IInv, TypeOK
<1>2. change.by \notin Calls
  BY OutsideAssumption
<1> HIDE DEF change
<1>3. TypeOK'
  <2>1. /\ log' \in Seq([op : Ops, by : Calls \cup {Elsewhere}, tag : Nat])
        /\ Len(log') = Len(log) + 1
    BY <1>1, Recorded DEF IInv
  <2> QED
    BY <2>1 DEF EditElsewhere, IInv, TypeOK
<1>4. \A n \in 1..Len(log') : EntryOK(n)'
  BY <1>1, <1>2, EntriesKept DEF EditElsewhere
<1>6. Kept /\ returned' = returned
  BY NothingGiven DEF EditElsewhere, IInv
<1>5. ASSUME NEW c \in Calls PROVE CallOK(c)'
  <2>1. Grows /\ Len(log') \in Nat /\ (Acted(c)' <=> Acted(c) \/ change.by = c) /\ change.by # c
    BY <1>1, <1>2, Recorded DEF IInv
  <2>2. Acted(c)' = Acted(c)
    BY <2>1, Zenon DEF Acted
  <2> QED
    BY <2>1, <2>2, <1>6, BystanderKept DEF EditElsewhere, IInv
<1> QED
  BY <1>3, <1>4, <1>5 DEF IInv

LEMMA HandleStep == ASSUME IInv, NEW c \in Calls, NEW code \in Codes, Handle(c, code) PROVE IInv'
<1>1. /\ c \in arriving /\ ~Acted(c) /\ request[c] # NoRequest /\ Change(c).op \in Ops
      /\ answer[c] = NoAnswer /\ answer[c].code = 0 /\ result[c] \in {-1, 0}
      /\ request[c].op = "update" => GivenOK(c)
      /\ result[c] = Pending => returned[c] = NoTag
      /\ request[c].tag \in 0..Len(log) /\ Len(log) \in Nat
  BY DEF Handle, IInv, CallOK, Redirected, TypeOK, Change, Pending, NoResponse, NoAnswer
<1>2. Kept /\ returned' = returned
  BY NothingGiven DEF Handle, IInv
<1>3. \A d \in Calls \ {c} : answer'[d] = answer[d]
  BY DEF Handle, Answer, IInv, TypeOK
<1>4. ASSUME TypeOK', Grows, Len(log') \in Nat, \A n \in 1..Len(log') : EntryOK(n)',
             \A d \in Calls \ {c} : Acted(d)' = Acted(d),
             \/ answer'[c] = NoAnswer
             \/ answer'[c].code = code /\ result[c] = -1,
             Settled(c, code)'
      PROVE  IInv'
  <2>1. ASSUME NEW d \in Calls \ {c} PROVE CallOK(d)'
    BY <1>2, <1>3, <1>4, BystanderKept DEF Handle, IInv
  <2>2. \A o \in {0, -1} : Settled(c, o)'
    BY DEF Settled, Refused, Success, Undecided, NoResponse, Pending
  <2>3. \A o \in {answer'[c].code, result'[c]} : Settled(c, o)'
    BY <1>1, <1>4, <2>2 DEF Handle, NoAnswer, NoResponse
  <2>4. /\ request'[c] = request[c] /\ c \notin arriving' /\ result'[c] = result[c]
        /\ request[c].op \in Ops /\ (request[c].op = "update" => GivenOK(c)')
        /\ result[c] = Pending => returned[c] = NoTag
    BY <1>1, <1>2, EditorAssumption DEF Handle, Change, GivenOK, Kept
  <2>5. result[c] # -1 => answer'[c] = NoAnswer
    BY <1>4
  <2>7. CallOK(c)'
    BY <1>1, <1>2, <2>3, <2>4, <2>5 DEF CallOK, Pending, InvalidArgument, NoResponse
  <2> QED
    BY <1>4, <2>1, <2>7 DEF IInv
<1>5. CASE /\ Success(code) \/ Undecided(code)
           /\ Record(Change(c))
           /\ Answer(c, code, IF Success(code) THEN Len(log) + 1 ELSE NoTag)
  <2>1. Change(c) \in [op : Ops, by : Calls \cup {Elsewhere}, tag : Nat]
    BY <1>1 DEF Change
  <2>2. /\ Grows /\ Len(log') = Len(log) + 1
        /\ log' \in Seq([op : Ops, by : Calls \cup {Elsewhere}, tag : Nat])
        /\ \A d \in Calls : Acted(d)' <=> Acted(d) \/ Change(c).by = d
    BY <1>5, <2>1, Recorded DEF IInv
  <2>7. Change(c).by = c /\ Acted(c)'
    BY <2>2 DEF Change
  <2>8. \A d \in Calls \ {c} : Acted(d)' = Acted(d)
    BY <2>2, <2>7, Zenon DEF Acted
  <2>3. \A n \in 1..Len(log') : EntryOK(n)'
    BY <1>1, <1>5, <2>1, EntriesKept DEF Change, Handle, GivenOK
  <2>4. TypeOK'
    BY <1>1, <1>5, <2>2 DEF Handle, Answer, IInv, TypeOK, NoTag
  <2>5. Settled(c, code)'
    <3>1. code \in Nat
      BY CodesAssumption
    <3>2. ~Refused(code) /\ code # 412
      BY <1>5, <3>1 DEF Refused, Success, Undecided, NoResponse
    <3> QED
      BY <2>7, <3>2 DEF Settled
  <2>6. answer'[c] = NoAnswer \/ (answer'[c].code = code /\ result[c] = -1)
    BY <1>1, <1>5 DEF Answer, Waiting, IInv, TypeOK, Pending, NoTag
  <2> QED
    BY <1>1, <1>4, <2>2, <2>3, <2>4, <2>5, <2>6, <2>8
<1>6. CASE /\ ~Success(code)
           /\ code = 412 => /\ request[c].op = "update" /\ Version # NoTag
                            /\ request[c].tag # Version
           /\ Answer(c, code, NoTag)
           /\ UNCHANGED log
  <2>1. \A n \in 1..Len(log') : EntryOK(n)'
    BY <1>2, <1>6, LogKept DEF IInv
  <2>2. Grows /\ Len(log') \in Nat /\ \A d \in Calls : Acted(d)' = Acted(d)
    BY <1>2, <1>6, LogKept DEF IInv
  <2>3. TypeOK'
    BY <1>1, <1>6 DEF Handle, Answer, IInv, TypeOK, NoTag
  <2>4. code = 412 => Len(log) > request[c].tag /\ log[request[c].tag + 1].by # c
    BY <1>1, <1>6 DEF Version, NoTag, Acted
  <2>5. Settled(c, code)'
    BY <1>1, <1>6, <2>2, <2>4 DEF Handle, Settled
  <2>6. answer'[c] = NoAnswer \/ (answer'[c].code = code /\ result[c] = -1)
    BY <1>1, <1>6 DEF Answer, Waiting, IInv, TypeOK, Pending
  <2> QED
    BY <1>4, <2>1, <2>2, <2>3, <2>5, <2>6
<1> QED
  BY <1>5, <1>6 DEF Handle

LEMMA NextInv == IInv /\ [Next]_vars => IInv'
<1> SUFFICES ASSUME IInv, [Next]_vars PROVE IInv'
  OBVIOUS
<1>1. CASE UNCHANGED vars
  <2>1. TypeOK'
    BY <1>1 DEF vars, IInv, TypeOK
  <2>2. Kept /\ returned' = returned
    BY <1>1, NothingGiven DEF vars, IInv
  <2>3. ASSUME NEW c \in Calls PROVE CallOK(c)'
    BY <1>1, <2>2, LogKept, BystanderKept DEF vars, IInv
  <2> QED
    BY <1>1, <2>1, <2>2, <2>3, LogKept DEF vars, IInv
<1> QED
  BY <1>1, RefuseStep, SendStep, ReturnStep, GiveUpStep, GetConfigStep, LoseStep,
     RedirectStep, EditElsewhereStep, HandleStep DEF Next, GoCD, Call

LEMMA InvHolds == Spec => []IInv
  BY InitInv, NextInv, PTL DEF Spec

-------------------------------------------------------------------------------
(* The theorems *)

(* Type correctness: an editor is given only ETags of versions that were.  *)
THEOREM TypeCorrect == Spec => []TypeOK
  BY InvHolds, PTL DEF IInv

(* An update replaces a version its editor knows, or one whose ETag a      *)
(* redirected update gave it.                                              *)
THEOREM UpdatesAreSeen == Spec => []NoLostUpdate
<1>1. ASSUME IInv, NEW e \in Editors, NEW n \in ETagsOf(e), n # NoTag
      PROVE  n \in Known(e) \/ n \in Misgiven(e)
  BY <1>1 DEF ETagsOf, Known, Misgiven
<1>2. IInv => NoLostUpdate
  <2> SUFFICES ASSUME IInv, NEW n \in 1..Len(log), log[n].op = "update", log[n].by \in Calls
               PROVE  /\ n > 1 /\ log[n].tag = n - 1 /\ log[n - 1].op # "delete"
                      /\ \/ n - 1 \in Known(EditorOf[log[n].by])
                         \/ n - 1 \in Misgiven(EditorOf[log[n].by])
    BY DEF NoLostUpdate
  <2>1. EntryOK(n)
    BY DEF IInv
  <2>2. n > 1 /\ n - 1 # NoTag /\ n - 1 \in ETagsOf(EditorOf[log[n].by])
    BY <2>1 DEF EntryOK, NoTag
  <2> QED
    BY <1>1, <2>1, <2>2, EditorAssumption DEF EntryOK
<1> QED
  BY <1>2, InvHolds, PTL

(* An update repeated with the same ETag is made once, and no call acts    *)
(* twice.                                                                  *)
THEOREM UpdatesAreSingle == Spec => []AppliedOnce
<1>1. IInv => AppliedOnce
  BY DEF IInv, TypeOK, EntryOK, AppliedOnce
<1> QED
  BY <1>1, InvHolds, PTL

(* A refused call has changed nothing and never will.                      *)
THEOREM RefusalsHold == Spec => []RefusedMeansUnchanged
<1>1. IInv => RefusedMeansUnchanged
  BY DEF IInv, CallOK, Settled, RefusedMeansUnchanged
<1> QED
  BY <1>1, InvHolds, PTL

(* A version conflict has another author.                                  *)
THEOREM ConflictsAreReal == Spec => []ConflictIsWithAnother
<1>1. IInv => ConflictIsWithAnother
  BY DEF IInv, CallOK, Settled, ConflictIsWithAnother
<1> QED
  BY <1>1, InvHolds, PTL

(* A change reported done was made, unless its request was redirected.     *)
THEOREM SuccessesAreReal == Spec => []OkMeansDone
<1>1. IInv => OkMeansDone
  BY DEF IInv, CallOK, Settled, OkMeansDone
<1> QED
  BY <1>1, InvHolds, PTL

-------------------------------------------------------------------------------
(* The tools implement the compare-and-set register *)

Verdicts == [c \in Calls |-> Said(c)]

LEMMA VerdictValues ==
    /\ Verdict(Pending) = "none" /\ Verdict(NoResponse) = "unknown"
    /\ \A code \in Nat \cup {InvalidArgument} :
          Verdict(code) = IF Success(code) THEN "applied"
                          ELSE IF Undecided(code) THEN "unknown" ELSE "refused"
  BY DEF Verdict, Success, Undecided, Pending, NoResponse, InvalidArgument

(* A verdict changes only with the call's result.                          *)
LEMMA VerdictsKept == result' = result /\ request' = request => Verdicts' = Verdicts
  BY DEF Verdicts, Said, Redirected

(* What a call returns, it may say.                                        *)
LEMMA Returned ==
    ASSUME NEW c \in Calls, NEW code \in Nat \cup {InvalidArgument},
           TypeOK, result[c] = Pending, result' = [result EXCEPT ![c] = code], log' = log,
           request' = request,
           Success(code) /\ ~Redirected(c) => Acted(c), Refused(code) => ~Acted(c)
    PROVE  Promise!Next
<1> DEFINE v == IF Redirected(c) THEN "unknown"
                ELSE IF Success(code) THEN "applied"
                ELSE IF Undecided(code) THEN "unknown" ELSE "refused"
<1>1. code # Pending
  BY DEF Pending, InvalidArgument
<1>2. /\ v = "applied" => Success(code) /\ ~Redirected(c)
      /\ v = "refused" => Refused(code)
      /\ v \in {"applied", "refused", "unknown"}
  <2>1. ~Success(code) /\ ~Undecided(code) => Refused(code)
    BY <1>1, Zenon DEF Refused
  <2> QED
    BY <2>1, Zenon
<1>3. result'[c] = code /\ \A d \in Calls \ {c} : result'[d] = result[d]
  BY DEF TypeOK
<1>4. Said(c) = "none" /\ Said(c)' = v
  <2>1. Said(c) = "none"
    BY VerdictValues DEF Said
  <2>2. Said(c)' = IF Redirected(c) /\ code # Pending THEN "unknown" ELSE Verdict(code)
    BY <1>3 DEF Said, Redirected
  <2>3. Verdict(code) = IF Success(code) THEN "applied"
                        ELSE IF Undecided(code) THEN "unknown" ELSE "refused"
    BY VerdictValues, Zenon
  <2> QED
    BY <1>1, <2>1, <2>2, <2>3, Zenon
<1> HIDE DEF v
<1>5. Verdicts' = [Verdicts EXCEPT ![c] = v]
  <2>1. ASSUME NEW d \in Calls PROVE Said(d)' = IF d = c THEN v ELSE Said(d)
    BY <1>3, <1>4 DEF Said, Redirected
  <2>2. Verdicts' = [d \in Calls |-> IF d = c THEN v ELSE Said(d)]
    BY <2>1 DEF Verdicts
  <2> QED
    BY <2>2 DEF Verdicts
<1>6. Promise!Acted(log, c) <=> Acted(c)
  BY DEF Promise!Acted, Acted
<1>7. Promise!Say(c, v)
  BY <1>2, <1>4, <1>5, <1>6 DEF Promise!Say, Verdicts
<1> QED
  BY <1>2, <1>7 DEF Promise!Next

(* What is recorded, the register can take.                                *)
LEMMA Taken ==
    ASSUME NEW change, Record(change) PROVE Promise!Take(change)
  BY DEF Record, Fits, Version, Promise!Take, Promise!Fits, Promise!VersionAfter, NoTag,
         Promise!NoTag

LEMMA HandleActs ==
    ASSUME IInv, NEW c \in Calls, NEW code \in Codes, Handle(c, code), log' # log
    PROVE  Promise!Next
<1>1. Record(Change(c)) /\ result' = result /\ request' = request
  BY DEF Handle
<1>2. /\ request[c].op \in Ops /\ ~Acted(c) /\ result[c] \in {Pending, NoResponse}
      /\ ~Redirected(c) /\ request[c].tag \in 0..Len(log)
  BY DEF Handle, IInv, CallOK, Redirected, TypeOK
<1>3. Change(c) \in Promise!Changes /\ Change(c).by = c /\ c # Elsewhere
  BY <1>2, OutsideAssumption DEF Change, Promise!Changes, Ops
<1>4. Verdicts[c] \in {"none", "unknown"}
  BY <1>2, VerdictValues DEF Verdicts, Said
<1>5. ~Promise!Acted(log, c)
  BY <1>2 DEF Promise!Acted, Acted
<1>6. Promise!Act(Change(c))
  BY <1>1, <1>3, <1>4, <1>5, Taken, VerdictsKept DEF Promise!Act, Verdicts
<1> QED
  BY <1>3, <1>6 DEF Promise!Next

LEMMA RefineInit == Init => Promise!Init
  BY VerdictValues DEF Init, Said, Promise!Init

(* A redirect changes what a call would say only before it has said it.    *)
LEMMA RedirectSilent ==
    ASSUME IInv, NEW c \in Calls, NEW code \in Codes, Redirect(c, code)
    PROVE  log' = log /\ Verdicts' = Verdicts
<1>1. result' = result /\ log' = log /\ \A d \in Calls \ {c} : request'[d] = request[d]
  BY DEF Redirect, IInv, TypeOK
<1>2. result[c] \in {Pending, NoResponse} /\ ~Redirected(c)
  BY DEF Redirect, IInv, CallOK
<1>3. ASSUME NEW d \in Calls PROVE Said(d)' = Said(d)
  <2>1. CASE d = c
    BY <1>1, <1>2, <2>1, VerdictValues DEF Said
  <2>2. CASE d # c
    BY <1>1, <2>2 DEF Said, Redirected
  <2> QED
    BY <2>1, <2>2
<1> QED
  BY <1>1, <1>3 DEF Verdicts

LEMMA RefineStep == ASSUME IInv, [Next]_vars PROVE [Promise!Next]_Promise!vars
<1>1. ASSUME log' = log, Verdicts' = Verdicts PROVE [Promise!Next]_Promise!vars
  BY <1>1 DEF Promise!vars, Verdicts
<1>2. ASSUME NEW c \in Calls, NEW in \in InputsOf(c), Refuse(c, in) PROVE Promise!Next
  <2>1. ~Success(InvalidArgument) /\ ~Acted(c)
    BY <1>2 DEF Refuse, Ready, IInv, CallOK, Success, InvalidArgument
  <2> QED
    BY <1>2, <2>1, Returned DEF Refuse, Ready, IInv
<1>3. ASSUME NEW c \in Calls, Return(c) PROVE Promise!Next
  <2>1. answer[c].code \in Nat
    <3>1. answer[c].code \in Codes \cup {NoResponse}
      BY DEF IInv, TypeOK
    <3> QED
      <4>1. Codes \subseteq Nat /\ NoResponse \in Nat
        BY CodesAssumption DEF NoResponse
      <4> QED
        BY <3>1, <4>1
  <2>2. Settled(c, answer[c].code)
    BY DEF IInv, CallOK
  <2> QED
    BY <1>3, <2>1, <2>2, Returned DEF Return, Waiting, IInv, Settled
<1>4. ASSUME NEW c \in Calls, GiveUp(c) PROVE Promise!Next
  <2>1. ~Success(NoResponse) /\ ~Refused(NoResponse) /\ NoResponse \in Nat
    BY DEF Success, Refused, Undecided, NoResponse
  <2> QED
    BY <1>4, <2>1, Returned DEF GiveUp, Waiting, IInv
<1>5. ASSUME NEW op \in Ops, EditElsewhere(op) PROVE Promise!Next
  <2> DEFINE change == [op |-> op, by |-> Elsewhere,
                        tag |-> IF op = "update" THEN Version ELSE NoTag]
  <2>1. change \in Promise!Changes /\ change.by = Elsewhere
    BY DEF Promise!Changes, Ops, Version, NoTag, IInv, TypeOK
  <2>2. Record(change) /\ result' = result /\ request' = request
    BY <1>5 DEF EditElsewhere
  <2> HIDE DEF change
  <2>3. Promise!Edit(change)
    BY <2>1, <2>2, Taken, VerdictsKept DEF Promise!Edit, Verdicts
  <2> QED
    BY <2>1, <2>3 DEF Promise!Next
<1>6. ASSUME NEW c \in Calls, NEW code \in Codes, Handle(c, code)
      PROVE  [Promise!Next]_Promise!vars
  BY <1>1, <1>6, VerdictsKept, HandleActs DEF Handle
<1>7. ASSUME NEW c \in Calls, NEW in \in InputsOf(c), Send(c, in)
      PROVE  log' = log /\ Verdicts' = Verdicts
  <2>1. result' = result /\ log' = log /\ result[c] = Pending
    BY <1>7 DEF Send, Ready
  <2>2. \A d \in Calls \ {c} : request'[d] = request[d]
    BY <1>7 DEF Send, IInv, TypeOK
  <2>3. ASSUME NEW d \in Calls PROVE Said(d)' = Said(d)
    BY <2>1, <2>2 DEF Said, Redirected
  <2> QED
    BY <2>1, <2>3 DEF Verdicts
<1>8. (\E e \in Editors : GetConfig(e)) \/ (\E c \in Calls : Lose(c)) \/ UNCHANGED vars =>
          log' = log /\ Verdicts' = Verdicts
  BY VerdictsKept DEF GetConfig, Lose, vars
<1> QED
  BY <1>1, <1>2, <1>3, <1>4, <1>5, <1>6, <1>7, <1>8, RedirectSilent DEF Next, GoCD, Call

(* The config tools are a compare-and-set register: what a call has said   *)
(* of its change stays true, if its request was not redirected.            *)
THEOREM RegisterKept == Spec => KeepsPromise
<1>1. Init => Promise!Init
  BY RefineInit
<1>2. IInv /\ [Next]_vars => [Promise!Next]_Promise!vars
  BY RefineStep
<1> QED
  BY <1>1, <1>2, InvHolds, PTL DEF Spec, KeepsPromise, Promise!Spec
===============================================================================
