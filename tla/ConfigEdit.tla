----------------------------- MODULE ConfigEdit -----------------------------
(***************************************************************************)
(* The config tools on one document, a pipeline config or a template:      *)
(* get, create, update and delete (internal/domain config.go, templates.go *)
(* and the client calls under them).  The server keeps nothing between two *)
(* calls: all that stands between two editors is the ETag an editor was    *)
(* given, which update sends back as If-Match, unchanged.                  *)
(*                                                                         *)
(* GoCD is external: it carries requests out one at a time, compares       *)
(* If-Match, and answers.  A request whose caller gave up (http.Client's   *)
(* timeout) may still be carried out later, or never arrive.  What stands  *)
(* at the base URL may redirect a request, and net/http follows a 301, 302 *)
(* or 303 with a GET: the answer the client takes for a change's is that   *)
(* of a read, whose document it never looks at.                            *)
(***************************************************************************)
EXTENDS GoCDClient, Sequences

CONSTANTS Calls,      \* tool calls that change the document
          Editors,    \* the people (their MCP clients) the calls are made for
          EditorOf,   \* EditorOf[c]: who makes call c
          Elsewhere,  \* everyone who edits without this server
          Kind,       \* which document: "pipeline" or "template"
          Codes,      \* answers of GoCD
          MaxChanges  \* bound: changes of the document

ASSUME EditorAssumption  == EditorOf \in [Calls -> Editors]
ASSUME OutsideAssumption == Elsewhere \notin Calls
ASSUME CodesAssumption   == Codes \subseteq Nat \ {NoResponse}
ASSUME KindAssumption    == Kind \in {"pipeline", "template"}

VARIABLES log,     \* GoCD: the changes made to the document
          arriving,\* calls whose request may still reach GoCD
          answer,  \* answer[c]: GoCD's answer on its way to call c
          request, \* request[c]: what call c sent, "get" once it was redirected
          result,  \* result[c]: the outcome call c returned
          read,    \* read[e]: the versions editor e was given the document of
          returned \* returned[c]: the ETag call c returned

vars == <<log, arriving, answer, request, result, read, returned>>

NoTag == 0  \* no document, and the blank ETag

Pending         == -1  \* result of a call that has not returned
InvalidArgument == -2  \* result of a call refused before anything was sent

Ops == {"create", "update", "delete"}

NoRequest == [op |-> "none", given |-> NoTag, tag |-> NoTag]
NoAnswer  == [code |-> NoResponse, etag |-> NoTag]

Version == IF log = <<>> \/ log[Len(log)].op = "delete" THEN NoTag ELSE Len(log)

Change(c) == [op |-> request[c].op, by |-> c, tag |-> request[c].tag]

Fits(change) == CASE change.op = "create" -> Version = NoTag
                  [] change.op = "update" -> Version # NoTag /\ change.tag = Version
                  [] change.op = "delete" -> Version # NoTag

Record(change) == /\ Len(log) < MaxChanges
                  /\ Fits(change)
                  /\ log' = Append(log, change)

-------------------------------------------------------------------------------
(* The tools.  A call's input: the name (of the pipeline or template, and  *)
(* for a created pipeline its group) may be unusable, the body a non-empty *)
(* object or not, and a template's body may carry another name.            *)

ValidPipelineUpdate(in) == in.named /\ in.tag # NoTag /\ in.body # "empty"

ValidPipelineCreate(in) == in.named /\ in.body # "empty"

(* A template cannot be renamed; a created one is named by its body.       *)
ValidTemplateUpdate(in) == in.named /\ in.tag # NoTag /\ in.body = "object"

ValidTemplateCreate(in) == in.body # "empty" /\ in.named

Valid(in) ==
    CASE in.op = "delete" -> in.named
      [] in.op = "update" -> IF Kind = "pipeline" THEN ValidPipelineUpdate(in)
                                                  ELSE ValidTemplateUpdate(in)
      [] in.op = "create" -> IF Kind = "pipeline" THEN ValidPipelineCreate(in)
                                                  ELSE ValidTemplateCreate(in)

(* Mutant: the ETag is read anew just before the config is written.        *)
MutantIfMatch(in) == IF in.op = "update" THEN Version ELSE NoTag

(* Only update sends the ETag, and sends the one it was given.             *)
IfMatch(in) == IF in.op = "update" THEN in.tag ELSE NoTag

(* Only update takes an ETag from its caller.                              *)
Given(in) == IF in.op = "update" THEN in.tag ELSE NoTag

Ready(c) == request[c] = NoRequest /\ result[c] = Pending

Refuse(c, in) == /\ Ready(c) /\ ~Valid(in)
                 /\ result' = [result EXCEPT ![c] = InvalidArgument]
                 /\ UNCHANGED <<log, arriving, answer, request, read, returned>>

Send(c, in) == /\ Ready(c) /\ Valid(in)
               /\ request' = [request EXCEPT ![c] = [op |-> in.op, given |-> Given(in),
                                                     tag |-> IfMatch(in)]]
               /\ arriving' = arriving \cup {c}
               /\ UNCHANGED <<log, answer, result, read, returned>>

Waiting(c) == request[c] # NoRequest /\ result[c] = Pending

(* Mutant: an answer that tells nothing (a 502) taken for success.         *)
MutantReturn(c) == /\ Waiting(c) /\ answer[c] # NoAnswer
                   /\ result' = [result EXCEPT ![c] = IF Undecided(answer[c].code) THEN 200
                                                      ELSE answer[c].code]
                   /\ UNCHANGED <<log, arriving, answer, request, read, returned>>

(* The status and the ETag of the answer are all that is looked at, and    *)
(* only update returns the ETag.                                           *)
Return(c) == /\ Waiting(c) /\ answer[c] # NoAnswer
             /\ result' = [result EXCEPT ![c] = answer[c].code]
             /\ returned' = IF Success(answer[c].code) /\ request[c].given # NoTag
                            THEN [returned EXCEPT ![c] = answer[c].etag]
                            ELSE returned
             /\ answer' = [answer EXCEPT ![c] = NoAnswer]
             /\ UNCHANGED <<log, arriving, request, read>>

(* Mutant: a request without an answer is sent again.                      *)
MutantSendAgain(c) == /\ Waiting(c) /\ request[c].op \in Ops
                      /\ arriving' = arriving \cup {c}
                      /\ UNCHANGED <<log, answer, request, result, read, returned>>

(* No answer came in time, or it was lost; nothing is sent again.          *)
GiveUp(c) == /\ Waiting(c)
             /\ result' = [result EXCEPT ![c] = NoResponse]
             /\ answer' = [answer EXCEPT ![c] = NoAnswer]
             /\ UNCHANGED <<log, arriving, request, read, returned>>

(* get_pipeline_config, get_template: the config with its ETag.            *)
GetConfig(e) == /\ Version # NoTag
                /\ read' = [read EXCEPT ![e] = @ \cup {Version}]
                /\ UNCHANGED <<log, arriving, answer, request, result, returned>>

-------------------------------------------------------------------------------
(* GoCD *)

(* Whoever gave up does not hear the answer.                               *)
Answer(c, code, etag) ==
    answer' = IF Waiting(c) THEN [answer EXCEPT ![c] = [code |-> code, etag |-> etag]]
                            ELSE answer

(* The request arrives, and is carried out and answered as a whole.        *)
Handle(c, code) ==
    /\ c \in arriving /\ arriving' = arriving \ {c}
    /\ \/ /\ Success(code) \/ Undecided(code)
          /\ Record(Change(c))
          /\ Answer(c, code, IF Success(code) THEN Len(log) + 1 ELSE NoTag)
       \/ /\ ~Success(code)
          /\ code = 404 => Version = NoTag /\ request[c].op # "create"
          /\ code = 412 => /\ request[c].op = "update" /\ Version # NoTag
                           /\ request[c].tag # Version
          /\ Answer(c, code, NoTag)
          /\ UNCHANGED log
    /\ UNCHANGED <<request, result, read, returned>>

(* A redirected request becomes a GET: of the document for an update or a  *)
(* delete, of the collection, which always is and has no ETag of the       *)
(* document's, for a create.                                               *)
Redirect(c, code) ==
    /\ c \in arriving /\ arriving' = arriving \ {c}
    /\ request' = [request EXCEPT ![c].op = "get"]
    /\ code # 412
    /\ Success(code) => request[c].op = "create" \/ Version # NoTag
    /\ code = 404 => request[c].op = "create" \/ Version = NoTag
    /\ Answer(c, code, IF Success(code) /\ request[c].op # "create" THEN Version ELSE NoTag)
    /\ UNCHANGED <<log, result, read, returned>>

(* The request never arrives.                                              *)
Lose(c) == /\ c \in arriving /\ arriving' = arriving \ {c}
           /\ UNCHANGED <<log, answer, request, result, read, returned>>

(* Somebody edits the document in GoCD's own pages, which lock it the same *)
(* way.                                                                    *)
EditElsewhere(op) ==
    /\ Record([op |-> op, by |-> Elsewhere, tag |-> IF op = "update" THEN Version ELSE NoTag])
    /\ UNCHANGED <<arriving, answer, request, result, read, returned>>

-------------------------------------------------------------------------------
Init == /\ log = <<>> /\ arriving = {}
        /\ answer = [c \in Calls |-> NoAnswer]
        /\ request = [c \in Calls |-> NoRequest]
        /\ result = [c \in Calls |-> Pending]
        /\ read = [e \in Editors |-> {}]
        /\ returned = [c \in Calls |-> NoTag]

CallsOf(e) == {c \in Calls : EditorOf[c] = e}

(* An editor passes on an ETag it was given, or none.                      *)
ETagsOf(e) == read[e] \cup {returned[c] : c \in CallsOf(e)} \cup {NoTag}

InputsOf(c) == [op    : Ops,
                named : BOOLEAN,
                body  : {"object", "empty", "renamed"},
                tag   : ETagsOf(EditorOf[c])]

Call(c) == \/ \E in \in InputsOf(c) : Refuse(c, in) \/ Send(c, in)
           \/ Return(c) \/ GiveUp(c)

GoCD == \/ \E c \in Calls : \/ \E code \in Codes : Handle(c, code) \/ Redirect(c, code)
                            \/ Lose(c)
        \/ \E op \in Ops : EditElsewhere(op)

Next == GoCD \/ \E c \in Calls : Call(c) \/ \E e \in Editors : GetConfig(e)

Spec == Init /\ [][Next]_vars

-------------------------------------------------------------------------------
(* Properties *)

Acted(c) == \E n \in 1..Len(log) : log[n].by = c

Redirected(c) == request[c].op = "get"

Refused(code) == code # Pending /\ ~Success(code) /\ ~Undecided(code)

(* The versions an editor knows: those whose document it read, and those  *)
(* its own updates made.                                                   *)
Known(e) == read[e] \cup {returned[c] : c \in {d \in CallsOf(e) : ~Redirected(d)}}

(* ETags that came back with the success of a redirected update.           *)
Misgiven(e) == {returned[c] : c \in {d \in CallsOf(e) : Redirected(d)}}

(* Type invariant; an editor is given only ETags of versions that were.    *)
TypeOK == /\ log \in Seq([op : Ops, by : Calls \cup {Elsewhere}, tag : Nat])
          /\ arriving \subseteq Calls
          /\ answer \in [Calls -> [code : Codes \cup {NoResponse}, etag : 0..Len(log)]]
          /\ request \in [Calls -> [op    : Ops \cup {"none", "get"},
                                    given : 0..Len(log),
                                    tag   : 0..Len(log)]]
          /\ result \in [Calls -> Codes \cup {Pending, InvalidArgument, NoResponse}]
          /\ read \in [Editors -> SUBSET (1..Len(log))]
          /\ returned \in [Calls -> 0..Len(log)]

(* No lost update: an update made through this server replaces a version   *)
(* its editor knows (optimistic locking, domain/config.go:10-11), with one *)
(* exception: a redirected update reports success with the ETag of         *)
(* whatever stands there (gocd/config.go:11-20), and an update that sends  *)
(* this ETag overwrites a version its editor never saw.  (A delete carries *)
(* no ETag and is not spoken of.)                                          *)
NoLostUpdate ==
    \A n \in 1..Len(log) :
        log[n].op = "update" /\ log[n].by \in Calls =>
            /\ n > 1 /\ log[n].tag = n - 1 /\ log[n - 1].op # "delete"
            /\ \/ n - 1 \in Known(EditorOf[log[n].by])
               \/ n - 1 \in Misgiven(EditorOf[log[n].by])

(* An editor who repeats an update with the ETag he has, because the first *)
(* answered with an error or not at all, does not make it twice: of all    *)
(* updates given one ETag at most one is made, and no call changes the     *)
(* document twice, however late its request arrives.                       *)
AppliedOnce ==
    \A m, n \in 1..Len(log) : m # n /\ log[m].by \in Calls /\ log[n].by \in Calls =>
        /\ log[m].by # log[n].by
        /\ log[m].op = "update" /\ log[n].op = "update" =>
               request[log[m].by].given # request[log[n].by].given

(* A change reported done was made (gocd/config.go:9-10 "replaces a        *)
(* pipeline's config ... Returns the new ETag"), unless its request was    *)
(* redirected: that call cannot know, and reports success all the same.    *)
OkMeansDone == \A c \in Calls : Success(result[c]) /\ ~Redirected(c) => Acted(c)

(* A call that returned a refusal has changed nothing and never will; only *)
(* the errors that say nothing (no answer, a 5xx) leave the matter open.   *)
RefusedMeansUnchanged ==
    \A c \in Calls : Refused(result[c]) => ~Acted(c) /\ c \notin arriving

(* A version conflict is never with the call itself: the version it named  *)
(* was replaced, and by another call or another person (the tool's advice, *)
(* "re-read the config and retry", mcpsrv/config.go:52).                   *)
ConflictIsWithAnother ==
    \A c \in Calls : result[c] = 412 =>
        Len(log) > request[c].tag /\ log[request[c].tag + 1].by # c

Verdict(code) == CASE code = Pending  -> "none"
                   [] Success(code)   -> "applied"
                   [] Undecided(code) -> "unknown"
                   [] OTHER           -> "refused"

(* A redirected call's success says nothing.                               *)
Said(c) == IF Redirected(c) /\ result[c] # Pending THEN "unknown" ELSE Verdict(result[c])

Promise == INSTANCE VersionedConfig WITH verdict <- [c \in Calls |-> Said(c)]

(* The tools implement the register: what a call has said of itself stays  *)
(* true of the document for good, a redirected call apart.                 *)
KeepsPromise == Promise!Spec
===============================================================================
