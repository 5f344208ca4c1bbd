---------------------------- MODULE MCAssistant ----------------------------
(* Sessions, one investigation, an alert, two correlations and a target,    *)
(* and groups of commands given to the assistant together.                  *)
EXTENDS Assistant

SomeSessions == [s1 |-> [target |-> "t1", inv |-> "i1", user |-> "u1"],
                 s2 |-> [target |-> "t1", inv |-> None, user |-> "u2"],
                 s3 |-> [target |-> "t2", inv |-> "i1", user |-> "u1"],
                 s4 |-> [target |-> "t1", inv |-> None, user |-> "u1"]]

Task(kind, on, user) ==
    [kind |-> kind, on |-> on, target |-> None, session |-> None, user |-> user,
     service |-> "v", provider |-> "mock", save |-> FALSE]
OnSession(kind, s) == [Task(kind, None, SomeSessions[s].user) EXCEPT !.session = s]

SomeCommands ==
    [ask1 |-> OnSession("chat", "s1"), ask2 |-> OnSession("chat", "s1"),
     ask3 |-> OnSession("chat", "s2"), ask4 |-> OnSession("chat", "s3"),
     open |-> OnSession("new", "s4"), clear |-> OnSession("clear", "s1"), delete |-> OnSession("delete", "s2"),
     report  |-> [Task("report", "i1", "u2") EXCEPT !.save = TRUE],
     approve |-> Task("approve", 2, "u2"),
     quick   |-> [Task("detection", "m1", "u1") EXCEPT !.provider = "remote"],
     alert   |-> Task("alert", "a1", "u1"), match |-> Task("detection", "m1", "u1"),
     group   |-> Task("correlation", "k1", "u2"), chain |-> Task("chain", "k1", "u1"),
     intel   |-> [Task("intelligence", "t1", "u1") EXCEPT !.target = "t1"],
     gaps    |-> Task("gaps", "i1", "u1"),
     nobody  |-> Task("summary", "i1", None),
     elsewhere |-> [Task("summary", "i1", "u1") EXCEPT !.service = "w", !.provider = "remote"],
     times   |-> [Task("timeline", "t1", "u2") EXCEPT !.target = "t1", !.service = "w"]]

Together(commands, disturbances) == [commands |-> commands, disturbances |-> disturbances]
TogetherGiven ==
    {Together(<<"ask1", "ask2">>, 0), Together(<<"ask1", "clear">>, 2), Together(<<"ask3", "delete", "open">>, 2),
     Together(<<"report", "approve">>, 1), Together(<<"report", "ask4">>, 1), Together(<<"report", "ask1">>, 0), Together(<<"quick", "quick", "quick">>, 2),
     Together(<<"quick", "match", "match">>, 0), Together(<<"match", "match">>, 1), Together(<<"alert", "group">>, 0), Together(<<"alert">>, 2), Together(<<"group">>, 2),
     Together(<<"chain", "intel">>, 0), Together(<<"gaps", "nobody">>, 1), Together(<<"nobody", "elsewhere", "times">>, 0)}

Quoting(type, id, at, quotes) == [type |-> type, id |-> id, at |-> at, quotes |-> quotes]
Fact(type, id, at) == Quoting(type, id, at, {})
Cite(type, id) == [type |-> type, id |-> id]
SomeRows ==
    [i1 |-> [anchor |-> <<Fact("investigation", "i1", 0)>>,
             evidence |-> <<Fact("finding", "f1", 0), Fact("asset", "h1", 1)>>],
     a1 |-> [anchor |-> <<Fact("alert", "a1", 1)>>, match |-> <<Fact("detection", "m1", 0)>>],
     m1 |-> [anchor |-> <<Fact("detection", "m1", 0)>>],
     k1 |-> [anchor |-> <<Fact("correlation", "k1", 1)>>,
             nodes  |-> <<Fact("finding", "f1", 0), Fact("finding", "f2", 0), Fact("finding", "f3", 1)>>,
             edges  |-> <<Fact("edge", "e1", 1)>>,
             chain  |-> <<Fact("attack_chain", "c1", 1), Fact("stage", "g1", 0)>>],
     t1 |-> [findings |-> <<Fact("finding", "f1", 0), Fact("finding", "f2", 0), Fact("finding", "f3", 1)>>,
             assets   |-> <<Fact("asset", "h1", 1)>>,
             intelligence |-> <<Fact("intelligence", "r1", 1)>>]]
Owners == [i1 |-> "t1", a1 |-> "t1", m1 |-> "t1", k1 |-> "t1", t1 |-> "t1", t2 |-> "t2"]

EarlierEvents == <<[inv |-> "i1", kind |-> "created", by |-> None, at |-> 1, quotes |-> {}]>>
EarlierNotes  == <<[inv |-> "i1", at |-> 1, ai |-> FALSE, by |-> None, approved |-> None,
                    quotes |-> {Cite("finding", "f9")}]>>
Nothing  == Cite("alert", "nowhere")
Leftover == Cite("alert", "inside")
=============================================================================
