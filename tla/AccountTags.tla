------------------------------ MODULE AccountTags ------------------------------
(***************************************************************************)
(* The tags on accounts (internal/basic: tags.go, service.go, paths.go;    *)
(* internal/steam/accounts_list.go, service.go; accountTagsContext.ts).    *)
(* ids.json holds which tags are defined, which accounts carry them, and   *)
(* when a tag ends: for all, or for one account.  One tag is special: it   *)
(* says that an account has taken this week's drop, and ends with the      *)
(* week.                                                                   *)
(*                                                                         *)
(* The calls of BasicService read the file, change it and write it back    *)
(* under a mutex of the service's.  The list of accounts takes off what    *)
(* has ended, and forgetting an account takes off all of its tags; both    *)
(* are SteamService's and do not take that mutex.                          *)
(***************************************************************************)
EXTENDS Integers

CONSTANTS Tagged,       \* accounts
          Tags,         \* identifiers of tags
          DropClaimed,  \* the special tag's, once there is one
          TagCallers,   \* goroutines that answer the frontend
          Week,         \* how long the special tag's week is
          LastHour,     \* bound: time
          MaxTagCalls   \* bound: calls in a behaviour

ASSUME AccountTagsAssumption == DropClaimed \in Tags /\ Week \in Nat \ {0} /\ {LastHour, MaxTagCalls} \subseteq Nat

VARIABLES ids,      \* ids.json
          hour,     \* the clock
          tagCall,  \* what each caller is doing, and the file as it read it
          tagCalls,
          owed,     \* who was given which tag, and has not lost it since (history)
          claimed,  \* when an account was last said to have taken the drop (history)
          crossed   \* a list or a forgetting wrote across another call (history)

tagVars == <<ids, hour, tagCall, tagCalls, owed, claimed, crossed>>

Undefined == -1                          \* no such tag
Always == 0                              \* a tag that does not end
Hours == 1..LastHour
NoTags == [ends |-> [t \in Tags |-> Undefined], on |-> [a \in Tagged |-> {}],
           until |-> [a \in Tagged |-> [t \in Tags |-> Always]]]
NoTagCall == [op |-> "none", read |-> FALSE, copy |-> NoTags]

\* What takes BasicService.mu, and what SteamService does without it.
BasicCalls == {"add", "create", "remove", "everywhere", "endsHere", "endsForAll", "special"}
SteamCalls == {"list", "forget"}

TagsInit ==
    /\ ids = NoTags /\ hour = 1
    /\ tagCall = [c \in TagCallers |-> NoTagCall] /\ tagCalls = 0
    /\ owed = {} /\ claimed = [a \in Tagged |-> 0] /\ crossed = FALSE

Carried(f) == {p \in Tagged \X Tags : p[2] \in f.on[p[1]]}

\* Whoever carries a tag carries one that is defined, a tag is defined while somebody carries it, and
\* an end for one account is an end of something that account carries: in the file, whoever wrote it.
TagsTypeOK ==
    /\ \A t \in Tags : ids.ends[t] # Undefined <=> \E a \in Tagged : t \in ids.on[a]
    /\ \A a \in Tagged, t \in Tags : ids.until[a][t] # Always => t \in ids.on[a]

----------------------------------------------------------------------------
(* What the calls make of the file.                                        *)

\* isExpiredAt.
Ended(end, now) == end # Always /\ end <= now

\* pruneUnusedTagDefinitions.
UnusedPruned(f) ==
    LET on == [a \in Tagged |-> {t \in f.on[a] : f.ends[t] # Undefined}]
    IN  [on |-> on,
         ends |-> [t \in Tags |-> IF \E a \in Tagged : t \in on[a] THEN f.ends[t] ELSE Undefined],
         until |-> [a \in Tagged |-> [t \in Tags |-> IF t \in on[a] THEN f.until[a][t] ELSE Always]]]

WithoutTags(f, pairs) ==
    [f EXCEPT !.on = [a \in Tagged |-> {t \in f.on[a] : <<a, t>> \notin pairs}],
              !.until = [a \in Tagged |-> [t \in Tags |-> IF <<a, t>> \in pairs THEN Always ELSE f.until[a][t]]]]

\* pruneExpiredTagsInFile: what has ended for all, or for the account that carries it.
Expired(f, now) == {p \in Carried(f) : Ended(f.ends[p[2]], now) \/ Ended(f.until[p[1]][p[2]], now)}
ExpiredPruned(f, now) == UnusedPruned(WithoutTags(f, Expired(f, now)))

\* nextCS2DropReset: the end of the week that goes on, and of the next one when it ends just now.
NextReset(now) == (now \div Week + 1) * Week

\* A tag is put on without an end of the account's own, though it be there already.
WithTag(f, a, t) == [WithoutTags(f, {<<a, t>>}) EXCEPT !.on[a] = @ \cup {t}]

\* Where a call answers with an error and writes nothing, or finds nothing to do.
TagRefused(k) ==
    \/ k.op = "add" /\ k.copy.ends[k.tag] = Undefined
    \/ k.op = "create" /\ k.copy.ends[k.tag] # Undefined
    \/ k.op = "remove" /\ k.copy.on[k.id] = {}
    \/ k.op \in {"endsHere", "endsForAll"} /\ k.copy.ends[k.tag] = Undefined
    \/ k.op = "endsHere" /\ k.tag \notin k.copy.on[k.id]
    \/ k.op = "list" /\ ExpiredPruned(k.copy, hour) = k.copy

TagsTaken(k) ==
    CASE k.op = "remove" -> {<<k.id, k.tag>>}
      [] k.op = "everywhere" -> Tagged \X {k.tag}
      [] k.op = "forget" -> {k.id} \X Tags
      [] k.op = "list" -> Expired(k.copy, hour)
      [] OTHER -> {}

TagsGiven(k) == IF k.op \in {"add", "create", "special"} THEN {<<k.id, k.tag>>} ELSE {}

\* CreateTagAndAddToAccount; ApplySpecialTag, which moves the end of the tag for all who carry it.
Created(f, a, t) == WithTag([f EXCEPT !.ends[t] = Always], a, t)
SpecialApplied(f, a, t) == WithTag([f EXCEPT !.ends[t] = NextReset(hour)], a, t)

\* setTagExpiryOnFile, for one account or for all.
EndSetHere(k)   == [k.copy EXCEPT !.until[k.id][k.tag] = k.end]
EndSetForAll(k) == [k.copy EXCEPT !.ends[k.tag] = k.end]

Retagged(k) ==
    CASE k.op = "add" -> WithTag(k.copy, k.id, k.tag)
      [] k.op = "create" -> Created(k.copy, k.id, k.tag)
      [] k.op = "special" -> SpecialApplied(k.copy, k.id, k.tag)
      [] k.op = "endsHere" -> EndSetHere(k)
      [] k.op = "endsForAll" -> EndSetForAll(k)
      [] k.op \in {"remove", "everywhere", "forget", "list"} -> UnusedPruned(WithoutTags(k.copy, TagsTaken(k)))

----------------------------------------------------------------------------
TagIdle(c) == tagCall[c].op = "none"

\* A mutant: the service's calls do not wait for one another.
NothingExcludes(op, other) == FALSE

\* Two mutexes: BasicService.mu, and SteamService.mu where an account is forgotten.
Excludes(op, other) == {op, other} \subseteq BasicCalls \/ (op = "forget" /\ other = "forget")

\* The menu offers the special tag's own entry, and no ends for it.
MayAsk(op, tag) ==
    /\ op = "special" => tag = DropClaimed
    /\ op \in {"create", "endsHere", "endsForAll", "everywhere"} => tag # DropClaimed

TagCallBegins(c, op, id, tag, end) ==
    /\ TagIdle(c) /\ tagCalls < MaxTagCalls
    /\ MayAsk(op, tag)
    /\ \A d \in TagCallers : ~TagIdle(d) => ~Excludes(op, tagCall[d].op)
    /\ tagCall' = [tagCall EXCEPT ![c] = [op |-> op, id |-> id, tag |-> tag, end |-> end, read |-> FALSE, copy |-> NoTags]]
    /\ tagCalls' = tagCalls + 1
    /\ UNCHANGED <<ids, hour, owed, claimed, crossed>>

ReadsIds(c) ==
    /\ ~TagIdle(c) /\ ~tagCall[c].read
    /\ tagCall' = [tagCall EXCEPT ![c].read = TRUE, ![c].copy = ids]
    /\ UNCHANGED <<ids, hour, tagCalls, owed, claimed, crossed>>

\* A call that has read and not written, or one that wrote since this one read.
Across(c) == ids # tagCall[c].copy \/ \E d \in TagCallers \ {c} : tagCall[d].read

WritesIds(c) ==
    /\ tagCall[c].read
    /\ LET k == tagCall[c]
       IN  /\ ~TagRefused(k)
           /\ ids' = Retagged(k)
           /\ owed' = (owed \cup TagsGiven(k)) \ TagsTaken(k)
           /\ claimed' = IF <<k.id, DropClaimed>> \in TagsGiven(k) THEN [claimed EXCEPT ![k.id] = hour] ELSE claimed
           /\ crossed' = (crossed \/ (k.op \in SteamCalls /\ Across(c)))
    /\ tagCall' = [tagCall EXCEPT ![c] = NoTagCall]
    /\ UNCHANGED <<hour, tagCalls>>

\* The call is refused, has nothing to do, or the file cannot be read or written.
TagCallEnds(c) ==
    /\ ~TagIdle(c)
    /\ tagCall' = [tagCall EXCEPT ![c] = NoTagCall]
    /\ UNCHANGED <<ids, hour, tagCalls, owed, claimed, crossed>>

HourPasses == hour < LastHour /\ hour' = hour + 1 /\ UNCHANGED <<ids, tagCall, tagCalls, owed, claimed, crossed>>

TagsNext ==
    \/ \E c \in TagCallers :
          \/ \E op \in {"endsHere", "endsForAll"}, a \in Tagged, t \in Tags, e \in Hours : TagCallBegins(c, op, a, t, e)
          \/ \E op \in {"add", "create", "remove", "special"}, a \in Tagged, t \in Tags : TagCallBegins(c, op, a, t, Always)
          \/ \E t \in Tags : TagCallBegins(c, "everywhere", CHOOSE a \in Tagged : TRUE, t, Always)
          \/ \E a \in Tagged : TagCallBegins(c, "forget", a, DropClaimed, Always)
          \/ TagCallBegins(c, "list", CHOOSE a \in Tagged : TRUE, DropClaimed, Always)
          \/ ReadsIds(c) \/ WritesIds(c) \/ TagCallEnds(c)
    \/ HourPasses

TagsSpec == TagsInit /\ [][TagsNext]_tagVars

----------------------------------------------------------------------------
\* An account carries just the tags somebody put on it and nothing has taken off or ended since:
\* calls of the service wait for one another, a list that has nothing to take off writes nothing, and
\* only a list or a forgetting that writes across another call undoes it (service.go:110-138).
TagsStay == crossed \/ owed = Carried(ids)

\* The same, whatever writes across whatever.  It fails: the list takes an ended tag off what it read,
\* and writes that over the tag that was put on meanwhile (tags.go:466-477).
TagsOutlastLists == owed = Carried(ids)

\* An account that is said to have taken the drop took it this week.  It fails: putting the tag on one
\* account moves its end for all, and an account that still carries last week's has it back, until
\* the list has taken that off (service.go, ApplySpecialTag).
ClaimIsThisWeeks ==
    \A a \in Tagged : DropClaimed \in ids.on[a] /\ ~Ended(ids.ends[DropClaimed], hour) => claimed[a] \div Week = hour \div Week
=============================================================================
