--------------------------- MODULE MCRequestHooks ---------------------------
(* A small request: one system object, two history objects and the current  *)
(* input; views with a tool exchange, dependency groups, and goals beyond   *)
(* the limit of a field; profiles that leave ample, scarce and no room.     *)
EXTENDS RequestHooks

MCRole(o) == CASE o = "system" -> "system" [] o = "input" -> "user" [] OTHER -> "assistant"

MCTokens(o) == CASE o \in {"old", "older"} -> 5 [] o \in {"note", "input"} -> 2 [] OTHER -> 1

MCNativeLists == {<<"system", "older", "old", "input">>, <<"system", "input", "old">>}

Item(field, id, active, sources, score, tokens) ==
    [field |-> field, id |-> id, active |-> active, sources |-> sources,
     score |-> score, tokens |-> tokens]

Episode ==
    [id |-> 1, level |-> "episode", task |-> FALSE, sources |-> {1, 2}, score |-> 1,
     tokens |-> 2,
     items |-> <<Item("goal", 1, TRUE, {1}, 3, 1), Item("decision", 1, TRUE, {2}, 2, 2)>>]

Task ==
    [id |-> 2, level |-> "task", task |-> TRUE, sources |-> {1, 2}, score |-> 1,
     tokens |-> 1,
     items |-> <<Item("anchor", 1, TRUE, {2}, 1, 1), Item("entity", 1, TRUE, {2}, 1, 1),
                 Item("dependency", 1, TRUE, {2}, 1, 1)>>]

Crowded ==
    [id |-> 3, level |-> "global", task |-> FALSE, sources |-> {1}, score |-> 1, tokens |-> 1,
     items |-> <<Item("goal", 1, TRUE, {1}, 1, 1), Item("goal", 2, TRUE, {1}, 1, 1),
                 Item("constraint", 1, FALSE, {1}, 1, 1), Item("entity", 1, TRUE, {1}, 1, 1)>>]

Event(seq, type, tool) == [seq |-> seq, type |-> type, tool |-> tool]

Input == Event(8, "user", NoTool)

Exchange == <<Event(4, "call", "x"), Event(5, "result", "x"), Event(6, "assistant", NoTool)>>

Chat == <<Event(6, "user", NoTool), Event(7, "assistant", NoTool)>>

View(capsules, delta) == [capsules |-> capsules, delta |-> delta, current |-> 8]

MCRequestViews ==
    {View(<<>>, <<Input>>), View(<<Episode>>, Chat \o <<Input>>),
     View(<<Episode, Task>>, <<Event(7, "user", NoTool), Input>>),
     View(<<Crowded>>, <<Event(7, "user", NoTool), Input>>),
     View(<<Task>>, Exchange \o <<Event(7, "user", NoTool), Input>>)}

Profile(limit, target) ==
    [limit |-> limit, reserved |-> 2, target |-> target, ceiling |-> 14, margin |-> 1]

MCTokenizers ==
    [primary : {TRUE}, slack : {-1, 0, 2}] \cup [primary : {FALSE}, slack : {0}]

MCProfiles == {Profile(14, 14), Profile(14, 8), Profile(2, 8)}
=============================================================================
