-------------------------------- MODULE MCReading --------------------------------
(* Instances of Reading: every short log; refusals of two levels of objects *)
(* and arrays, short and over each limit.                                   *)
EXTENDS Reading

MCLogs       == BoundedSeq({"byte", Newline}, 7)
MCTailValues == {-1, 0, 1, 3}

(* The lines of a text, read from its beginning.                           *)
LinesOf(text) ==
    FoldLeft(LAMBDA lines, c :
                IF c = Newline THEN Append(lines, <<>>)
                ELSE [lines EXCEPT ![Len(lines)] = Append(@, c)],
             << <<>> >>, text)

(* AreLastLines means what it says line by line.                           *)
ASSUME LastLines ==
    \A log \in BoundedSeq({"byte", Newline}, 5), n \in 1 .. 3 :
        LET lines == LinesOf(log)
            last  == Max({0} \cup {i \in DOMAIN lines : lines[i] # <<>>})
        IN  \A text \in BoundedSeq({"byte", Newline}, 5) :
                AreLastLines(text, log, n) <=>
                    IF last = 0 THEN text = <<>>
                    ELSE LinesOf(text) = SubSeq(lines, Max({1, last - n + 1}), last)
----------------------------------------------------------------------------
(* A value with errors that holds the values given, under 0, 1 and so on.  *)
NodeOf(object, errors, below) ==
    LET paths == UNION {{<<k - 1>> \o p : p \in DOMAIN below[k]} : k \in DOMAIN below}
    IN  [p \in {<<>>} \cup paths |->
            IF p = <<>> THEN [object  |-> object, errors |-> errors,
                               members |-> {k - 1 : k \in DOMAIN below}]
            ELSE below[p[1] + 1][Tail(p)]]

Fields == {0, 1}
Node(errors, below) == NodeOf(TRUE, errors, below)

(* Errors that are an object, and errors that are not.                     *)
Nodes(below) == {Node(e, below) : e \in SUBSET Fields} \cup {NodeOf(FALSE, Fields, below)}

Flat   == Nodes(<<>>)
Lists  == {Node({}, items) : items \in BoundedSeq(Flat, 2)}
Trees  == UNION {Nodes(below) : below \in BoundedSeq(Flat, 2) \cup {<<list>> : list \in Lists}}

Texts == {<<"byte">>, <<"byte", "more">>, <<"byte", "more", "byte">>}

Padded(text, n) == text \o [i \in 1 .. n |-> IF i % 2 = 0 THEN "more" ELSE "byte"]

Spaces(n) == [i \in 1 .. n |-> "space"]

(* A body as it is sent, some with white space around it, up to the limit. *)
Sent(m, n) == {Spaces(b) \o Padded(m, n) \o Spaces(a) : <<b, a>> \in {<<0, 0>>, <<5, 1>>, <<1, 9>>}}

(* Answers of GoCD, which echo the object, and pages of a proxy.           *)
MCBodies ==
    UNION {{[message |-> m, data |-> t, bytes |-> s] : t \in Trees, s \in Sent(m, n)} :
              m \in Texts, n \in {2, 8, 12}}
    \cup UNION {{[message |-> <<>>, data |-> Node({}, <<>>), bytes |-> s] :
                    s \in Sent(m, n) \cup {Spaces(3)}} : m \in Texts, n \in {2, 8, 12}}
===============================================================================
