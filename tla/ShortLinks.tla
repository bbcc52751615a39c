------------------------------ MODULE ShortLinks ------------------------------
(***************************************************************************)
(* Short links: PreviewShortLink, PersistShortLink and ResolveShortLink of *)
(* pkg/database/shortlinks.go as handleShorten (pkg/api/handlers.go) calls *)
(* them for browsers that first show a code and then commit it.  Lookups   *)
(* and inserts are separate statements; the table has a unique code and a  *)
(* unique target.                                                          *)
(***************************************************************************)
EXTENDS Integers, FiniteSets

CONSTANTS
    Users,
    Codes,
    Targets,
    NoCode,
    MaxAttempts \* 64 in the source

Assumption ==
    /\ NoCode \notin Codes /\ IsFiniteSet(Codes) /\ Targets # {}
    /\ MaxAttempts \in Nat \ {0}

VARIABLES
    links,      \* rows [code, target] of short_links
    at,         \* at[u]: where the user's request stands
    target,     \* target[u]: the URL to shorten
    code,       \* code[u]: the code shown, proposed or returned
    attempts    \* attempts[u]: turns of the loop in PersistShortLink

vars == <<links, at, target, code, attempts>>

Taken(c) == \E l \in links : l.code = c
Stored(t) == \E l \in links : l.target = t

(* lookupShortLinkByTarget *)
CodeOf(t) == (CHOOSE l \in links : l.target = t).code

Go(u, place, c) ==
    /\ at' = [at EXCEPT ![u] = place]
    /\ code' = [code EXCEPT ![u] = c]

(* The next turn of the loop, with a random code. *)
Retry(u) ==
    /\ Go(u, "proposing", NoCode)
    /\ attempts' = [attempts EXCEPT ![u] = @ + 1]
-----------------------------------------------------------------------------
Init ==
    /\ links = {}
    /\ at = [u \in Users |-> "idle"]
    /\ target = [u \in Users |-> CHOOSE t \in Targets : TRUE]
    /\ code = [u \in Users |-> NoCode]
    /\ attempts = [u \in Users |-> 0]

(* The code of a stored target, or an unused one that is not reserved. *)
Preview(u) ==
    /\ at[u] = "idle"
    /\ \E c \in Codes :
          /\ IF Stored(target[u]) THEN c = CodeOf(target[u]) ELSE ~Taken(c)
          /\ Go(u, "shown", c)
    /\ UNCHANGED <<links, target, attempts>>

(* PersistShortLink up to its loop, with the code shown or without one. *)
Persist(u) ==
    /\ at[u] \in {"idle", "shown"}
    /\ IF Stored(target[u]) THEN Go(u, "done", CodeOf(target[u]))
                            ELSE Go(u, "proposing", code[u])
    /\ attempts' = [attempts EXCEPT ![u] = 0]
    /\ UNCHANGED <<links, target>>

(* One turn: the code of the caller if it is free, else a random one. *)
Propose(u) ==
    /\ at[u] = "proposing"
    /\ attempts[u] < MaxAttempts
    /\ \/ /\ code[u] # NoCode /\ Taken(code[u])
          /\ Retry(u)
       \/ \E c \in Codes :
             /\ ~Taken(c) /\ code[u] \in {NoCode, c}
             /\ Go(u, "inserting", c)
             /\ UNCHANGED attempts
    /\ UNCHANGED <<links, target>>

(* Faulty variant: the table has no unique target. *)
InsertTwice(u) ==
    /\ at[u] = "inserting"
    /\ IF Taken(code[u])
       THEN Retry(u) /\ UNCHANGED links
       ELSE /\ links' = links \cup {[code |-> code[u], target |-> target[u]]}
            /\ Go(u, "done", code[u])
            /\ UNCHANGED attempts
    /\ UNCHANGED target

(* The row goes in unless it violates one of the two unique constraints. *)
Insert(u) ==
    /\ at[u] = "inserting"
    /\ IF Taken(code[u]) \/ Stored(target[u])
       THEN Retry(u) /\ UNCHANGED links
       ELSE /\ links' = links \cup {[code |-> code[u], target |-> target[u]]}
            /\ Go(u, "done", code[u])
            /\ UNCHANGED attempts
    /\ UNCHANGED target

(* The loop ends, or randomUnusedCode finds every code in use. *)
Exhausted(u) ==
    /\ at[u] = "proposing"
    /\ \/ attempts[u] = MaxAttempts
       \/ code[u] = NoCode /\ \A c \in Codes : Taken(c)
    /\ Go(u, "exhausted", NoCode)
    /\ UNCHANGED <<links, target, attempts>>

(* A statement fails or the context ends; the row may be there after all.  *)
Fail(u) ==
    /\ at[u] \in {"proposing", "inserting"}
    /\ Go(u, "failed", NoCode)
    /\ \/ UNCHANGED links
       \/ /\ at[u] = "inserting" /\ ~Taken(code[u]) /\ ~Stored(target[u])
          /\ links' = links \cup {[code |-> code[u], target |-> target[u]]}
    /\ UNCHANGED <<target, attempts>>

(* The browser comes (back) with some URL. *)
Again(u) ==
    /\ at[u] \in {"idle", "shown", "done", "exhausted", "failed"}
    /\ \E t \in Targets : target' = [target EXCEPT ![u] = t]
    /\ Go(u, "idle", NoCode)
    /\ UNCHANGED <<links, attempts>>

Next == \E u \in Users :
    Preview(u) \/ Persist(u) \/ Propose(u) \/ Insert(u) \/ Exhausted(u) \/ Fail(u) \/ Again(u)

Spec == Init /\ [][Next]_vars
-----------------------------------------------------------------------------
TypeOK ==
    /\ links \subseteq [code : Codes, target : Targets]
    /\ at \in [Users -> {"idle", "shown", "proposing", "inserting", "done",
                         "exhausted", "failed"}]
    /\ target \in [Users -> Targets]
    /\ code \in [Users -> Codes \cup {NoCode}]
    /\ attempts \in [Users -> 0..MaxAttempts]

(* The code a caller was given leads to its URL, whoever stored it; and    *)
(* two callers that shortened one URL hold one code, and no code leads to  *)
(* two URLs, although each looked before the other inserted.               *)
LinksAgree ==
    LET given == {[code |-> code[u], target |-> target[u]] : u \in {v \in Users : at[v] = "done"}}
    IN  /\ given \subseteq links
        /\ \A l, m \in given : l.target = m.target <=> l.code = m.code
=============================================================================
