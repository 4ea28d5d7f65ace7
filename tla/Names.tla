------------------------------- MODULE Names -------------------------------
(***************************************************************************)
(* Display names of chats: the resolver and its cache (names.go), those    *)
(* who store what it finds - the persistence worker (persist.go),          *)
(* chats.list and chat.open, message.send and media.send (methods.go,      *)
(* media_send.go) - and the repair of group names (group_repair.go).       *)
(*                                                                         *)
(* A name is known by where it comes from, a subject also by its number    *)
(* in the group's history.  Each of those who store names looks, reads,    *)
(* remembers and writes in separate steps, and nothing but the cache's     *)
(* mutex keeps them apart.                                                 *)
(***************************************************************************)
EXTENDS Naturals, Sequences, FiniteSets

CONSTANTS
  Groups, Peers,   \* chats
  Lids,            \* the peers known by an @lid
  AltOf,           \* a peer's other identity, the PN of an @lid or the @lid of a PN
  Misnamed,        \* groups an older build can have named after a participant
  Raw,             \* peers an older build stored under their raw @lid
  CacheCap,        \* nameCacheMaxSize (4096 in the code)
  MaxPerRun,       \* groupRepairMaxPerRun (25 in the code)
  MaxListLimit,    \* database.MaxListLimit (1000 in the code)
  MaxEvents,       \* bound: subjects changed, messages and history conversations handled,
                   \* contacts learned, messages sent, connections that start a repair
  MaxFaults        \* bound: statements and queries that fail, crashes

Chats == Groups \cup Peers
Identities == Peers \cup {AltOf[p] : p \in Peers}

ASSUME NamesAssumption ==
  /\ Groups \cap Peers = {} /\ IsFiniteSet(Chats)
  /\ Lids \subseteq Peers /\ Misnamed \subseteq Groups /\ Raw \subseteq Lids
  /\ DOMAIN AltOf = Peers
  /\ CacheCap \in Nat \ {0} /\ MaxPerRun \in Nat /\ MaxListLimit \in Nat /\ MaxEvents \in Nat /\ MaxFaults \in Nat

VARIABLES
  chats,      \* cae_chats.name; "absent" without a row
  groups,     \* cae_groups.name
  saved,      \* identities with a saved name, in cae_contacts or in whatsmeow's store
  pushed,     \* likewise with a push name
  mapped,     \* peers whose other identity whatsmeow knows
  cache,      \* NameResolver.cache, what has not expired of it
  subject,    \* per group, how many subjects it has had: the network's view
  misnamed,   \* the groups that build did misname
  news,       \* GroupInfo events on their way to the worker
  user,       \* the resolver's users: next step, chat, hint, name in hand
  repair,     \* the repairer: next step, groups still to do, group, name, queries
  budget      \* what is left of the bounds

tables == <<chats, groups>>
sources == <<saved, pushed, mapped>>
network == <<subject, news, misnamed>>
vars == <<tables, sources, cache, network, user, repair, budget>>

Users == {"worker", "list", "send"}
NoChat == "nochat"

Name(kind) == [kind |-> kind, version |-> 0]
Subject(n) == [kind |-> "subject", version |-> n]
NoName == Name("none")
SubjectNames == [kind : {"subject"}, version : Nat \ {0}]
Fallbacks == {Name("phone"), Name("raw")}
RealNames == SubjectNames \cup {Name("saved"), Name("push"), Name("participant")}
NoEntry == [name |-> NoName, resolved |-> FALSE]

IdleUser == [at |-> "idle", chat |-> NoChat, hint |-> FALSE, name |-> NoName, resolved |-> FALSE]
IdleRepair == [at |-> "idle", todo |-> {}, chat |-> NoChat, name |-> NoName, queries |-> 0]

Init ==
  /\ misnamed \in SUBSET Misnamed
  /\ chats = [c \in Chats |-> Name(IF c \in misnamed THEN "participant"
                                   ELSE IF c \in Raw THEN "raw" ELSE "absent")]
  /\ groups = [g \in Groups |-> NoName]
  /\ saved = {} /\ pushed = {} /\ mapped = {}
  /\ cache = [c \in Chats |-> NoEntry]
  /\ subject = [g \in Groups |-> 1] /\ news = <<>>
  /\ user = [u \in Users |-> IdleUser] /\ repair = IdleRepair
  /\ budget = [events |-> MaxEvents, faults |-> MaxFaults]

Event == budget.events > 0 /\ budget' = [budget EXCEPT !.events = @ - 1]
Fault == budget.faults > 0 /\ budget' = [budget EXCEPT !.faults = @ - 1]

\* chatNameResolved: neither missing nor a raw identifier.
ChatNameResolved(name) == name.kind \notin {"absent", "none", "raw"}

\* An empty name never replaces a known one.
UpsertChat(c, name) ==
  chats' = [chats EXCEPT ![c] = IF name # NoName \/ @.kind = "absent" THEN name ELSE @]

UpsertGroup(g, name) == groups' = [groups EXCEPT ![g] = IF name # NoName THEN name ELSE @]

-----------------------------------------------------------------------------
(* The resolver                                                            *)

\* A query of the resolver, by what it asks and about whom.  One that fails finds nothing,
\* and the search goes on: `missed` are those that failed.
Queries(c) ==
  {"group", "chat", "mapping", "saved", "push"} \X ({c} \cup {AltOf[p] : p \in {c} \cap Peers})

MappingFound(p, missed) == p \in mapped /\ <<"mapping", p>> \notin missed

\* A peer's identities, the mapped one included.
Candidates(p, missed) == {p} \cup {AltOf[q] : q \in {r \in {p} : MappingFound(r, missed)}}

\* What the tables and the store know: a group's subject or the name it has, a peer's
\* saved name, then its push name.
Known(c, missed) ==
  IF c \in Groups
    THEN IF groups[c] # NoName /\ <<"group", c>> \notin missed THEN groups[c]
         ELSE IF ChatNameResolved(chats[c]) /\ <<"chat", c>> \notin missed THEN chats[c] ELSE NoName
    ELSE IF \E i \in Candidates(c, missed) \cap saved : <<"saved", i>> \notin missed THEN Name("saved")
         ELSE IF \E i \in Candidates(c, missed) \cap pushed : <<"push", i>> \notin missed THEN Name("push")
         ELSE NoName

\* Wrong variant: the push name of a message's sender names the chat, whatever it is.
HintNames_All(c) == TRUE

\* The push name that came with a message belongs to the sender: it never names a group.
HintNames(c) == c \in Peers

Fallback(c, missed) ==
  IF c \in Peers /\ (c \notin Lids \/ MappingFound(c, missed)) THEN Name("phone") ELSE Name("raw")

resolve(c, hint, missed) ==
  IF Known(c, missed) # NoName THEN Known(c, missed)
  ELSE IF hint THEN Name(IF c \in Peers THEN "push" ELSE "participant")
  ELSE Fallback(c, missed)

GoOn(u, at, name) ==
  user' = [user EXCEPT ![u].at = at, ![u].name = name, ![u].resolved = name \notin Fallbacks]

\* Resolve: what the cache holds, unless a hint came along, or what the sources say.  An
\* answer that a failed query left wanting is remembered like any other.
Resolve(u) ==
  LET c == user[u].chat
      hint == user[u].hint /\ HintNames(c)
      cached == ~hint /\ cache[c] # NoEntry
      Answer(missed) == GoOn(u, IF hint THEN "write" ELSE "remember", resolve(c, hint, missed))
  IN
  /\ user[u].at = "look"
  /\ \/ cached /\ GoOn(u, "write", cache[c].name) /\ UNCHANGED budget
     \/ ~cached /\ Answer({}) /\ UNCHANGED budget
     \/ ~cached /\ Fault /\ \E q \in Queries(c) : Answer({q})
  /\ UNCHANGED <<tables, sources, cache, network, repair>>

\* A full cache is emptied first, even if the entry was in it.
Remember(u) ==
  LET kept == IF Cardinality({c \in Chats : cache[c] # NoEntry}) >= CacheCap
                THEN [c \in Chats |-> NoEntry] ELSE cache
  IN
  /\ user[u].at = "remember"
  /\ cache' = [kept EXCEPT ![user[u].chat] = [name |-> user[u].name, resolved |-> user[u].resolved]]
  /\ user' = [user EXCEPT ![u].at = "write"]
  /\ UNCHANGED <<tables, sources, network, repair, budget>>

\* Wrong variant: a miss is remembered for good.
Expire_OnlyResolved(c) ==
  /\ cache[c] # NoEntry /\ cache[c].resolved
  /\ cache' = [cache EXCEPT ![c] = NoEntry]
  /\ UNCHANGED <<tables, sources, network, user, repair, budget>>

\* nameCacheTTL or nameNegativeTTL has passed.
Expire(c) ==
  /\ cache[c] # NoEntry
  /\ cache' = [cache EXCEPT ![c] = NoEntry]
  /\ UNCHANGED <<tables, sources, network, user, repair, budget>>

-----------------------------------------------------------------------------
(* Those who store names                                                   *)

\* Wrong variant: the fallback is stored like a name.
NameToStore_Fallback(u) == user[u].name

\* A fallback is not stored: the empty string stands for it.
NameToStore(u) == IF user[u].resolved THEN user[u].name ELSE NoName

\* The worker and the senders write the row whatever they found, chats.list only a name.
WriteChat(u) ==
  /\ user[u].at = "write"
  /\ \/ u = "list" /\ NameToStore(u) = NoName /\ UNCHANGED <<chats, budget>>
     \/ ~(u = "list" /\ NameToStore(u) = NoName) /\ UpsertChat(user[u].chat, NameToStore(u)) /\ UNCHANGED budget
     \/ Fault /\ UNCHANGED chats
  /\ user' = [user EXCEPT ![u] =
       IF user[u].hint /\ budget' = budget THEN [@ EXCEPT !.at = "contact"] ELSE IdleUser]
  /\ UNCHANGED <<groups, sources, cache, network, repair>>

\* A message, or a history conversation without a name of its own: incoming ones bring
\* the sender's push name.
BeginMessage(c, hint) ==
  /\ user["worker"].at = "idle"
  /\ user' = [user EXCEPT !["worker"] = [IdleUser EXCEPT !.at = "look", !.chat = c, !.hint = hint]]
  /\ Event
  /\ UNCHANGED <<tables, sources, cache, network, repair>>

\* The push name goes to the sender's contact: the chat's peer, or a member of the group,
\* who can be one of the peers.
StoreContact ==
  LET c == user["worker"].chat IN
  /\ user["worker"].at = "contact"
  /\ \/ /\ \E senders \in IF c \in Peers THEN {{c}} ELSE {{p} : p \in Peers} \cup {{}} :
             pushed' = pushed \cup senders
        /\ UNCHANGED budget
     \/ Fault /\ UNCHANGED pushed
  /\ user' = [user EXCEPT !["worker"] = IdleUser]
  /\ UNCHANGED <<tables, saved, mapped, cache, network, repair>>

\* A history conversation with a display name, which is the last to be written in its
\* transaction: what the account knew when the batch was made.
StoreConversation(c) ==
  /\ user["worker"].at = "idle"
  /\ \E name \in IF c \in Groups THEN {Subject(n) : n \in 1..subject[c]}
                                ELSE {Name("saved"), Name("push")} :
       UpsertChat(c, name)
  /\ pushed' \in {pushed, pushed \cup ({c} \cap Peers)}
  /\ Event
  /\ UNCHANGED <<groups, saved, mapped, cache, network, user, repair>>

\* persistGroup: the group, then the chat.
StoreGroup ==
  /\ user["worker"].at = "idle" /\ news # <<>>
  /\ news' = Tail(news)
  /\ \/ /\ UpsertGroup(Head(news).chat, Head(news).name)
        /\ user' = [user EXCEPT !["worker"] =
             [IdleUser EXCEPT !.at = "write", !.chat = Head(news).chat, !.name = Head(news).name,
                              !.resolved = TRUE]]
        /\ UNCHANGED budget
     \/ Fault /\ UNCHANGED <<groups, user>>
  /\ UNCHANGED <<chats, sources, cache, subject, misnamed, repair>>

\* chats.list and chat.open of a chat without a name: backfillChatName.
BeginList(c) ==
  /\ user["list"].at = "idle"
  /\ chats[c].kind # "absent" /\ ~ChatNameResolved(chats[c])
  /\ user' = [user EXCEPT !["list"] = [IdleUser EXCEPT !.at = "look", !.chat = c]]
  /\ UNCHANGED <<tables, sources, cache, network, repair, budget>>

\* storeOutgoing and finalizeSentMedia: chatName takes the stored name, if it is one.
BeginSend(c) ==
  /\ user["send"].at = "idle"
  /\ user' = [user EXCEPT !["send"] =
       IF ChatNameResolved(chats[c])
         THEN [IdleUser EXCEPT !.at = "write", !.chat = c, !.name = chats[c], !.resolved = TRUE]
         ELSE [IdleUser EXCEPT !.at = "look", !.chat = c]]
  /\ Event
  /\ UNCHANGED <<tables, sources, cache, network, repair>>

UserStep(u) == Resolve(u) \/ Remember(u) \/ WriteChat(u)
WorkerStep == UserStep("worker") \/ StoreContact \/ StoreGroup

-----------------------------------------------------------------------------
(* The repair of group names                                               *)

RepairFrame == UNCHANGED <<sources, cache, network, user>>

\* Kick and run: the groups among the chats that ListChats lists, which are the MaxListLimit
\* most recent ones, in an order that is left open here.
Kick ==
  LET rows == {c \in Chats : chats[c].kind # "absent"} IN
  /\ repair.at = "idle"
  /\ \E listed \in SUBSET rows :
       /\ Cardinality(listed) <= MaxListLimit
       /\ Cardinality(listed) = MaxListLimit \/ listed = rows
       /\ repair' = [IdleRepair EXCEPT !.at = "next", !.todo = listed \cap Groups]
  /\ Event
  /\ UNCHANGED tables /\ RepairFrame

Visit(g, name) ==
  repair' = IF name # NoName
              THEN [repair EXCEPT !.at = "compare", !.todo = @ \ {g}, !.chat = g, !.name = name]
            ELSE IF repair.queries >= MaxPerRun THEN IdleRepair
            ELSE [repair EXCEPT !.at = "fetch", !.todo = @ \ {g}, !.chat = g, !.queries = @ + 1]

\* A subject in cae_groups is applied without asking the network, which is asked at most
\* MaxPerRun times.  A row that cannot be read is one that is not there.
NextGroup ==
  /\ repair.at = "next"
  /\ \/ \E g \in repair.todo :
          \/ Visit(g, groups[g]) /\ UNCHANGED budget
          \/ Visit(g, NoName) /\ Fault
     \/ repair.todo = {} /\ repair' = IdleRepair /\ UNCHANGED budget
  /\ UNCHANGED tables /\ RepairFrame

RepairFails == Fault /\ repair' = [repair EXCEPT !.at = "next", !.chat = NoChat, !.name = NoName]

\* GetGroupInfo, external: the subject at some moment of the call.  An answer without info or
\* without a name ends the visit as an error does.
FetchGroup ==
  /\ repair.at = "fetch"
  /\ \/ /\ repair' = [repair EXCEPT !.at = "group", !.name = Subject(subject[repair.chat])]
        /\ UNCHANGED budget
     \/ RepairFails
  /\ UNCHANGED tables /\ RepairFrame

RepairGroup ==
  /\ repair.at = "group"
  /\ \/ /\ UpsertGroup(repair.chat, repair.name)
        /\ repair' = [repair EXCEPT !.at = "compare"] /\ UNCHANGED budget
     \/ RepairFails /\ UNCHANGED groups
  /\ UNCHANGED chats /\ RepairFrame

\* applyName: the row is written only if it has another name, or could not be read.
CompareName ==
  /\ repair.at = "compare"
  /\ \/ /\ repair' = IF chats[repair.chat] = repair.name
                         THEN [repair EXCEPT !.at = "next", !.chat = NoChat, !.name = NoName]
                         ELSE [repair EXCEPT !.at = "apply"]
        /\ UNCHANGED budget
     \/ repair' = [repair EXCEPT !.at = "apply"] /\ Fault
  /\ UNCHANGED tables /\ RepairFrame

ApplyName ==
  /\ repair.at = "apply"
  /\ \/ /\ UpsertChat(repair.chat, repair.name) /\ UNCHANGED budget
        /\ repair' = [repair EXCEPT !.at = "next", !.chat = NoChat, !.name = NoName]
     \/ RepairFails /\ UNCHANGED chats
  /\ UNCHANGED groups /\ RepairFrame

RepairStep == NextGroup \/ FetchGroup \/ RepairGroup \/ CompareName \/ ApplyName

-----------------------------------------------------------------------------
(* The network, whatsmeow's store, crashes                                 *)

\* A group's subject changes; the event follows.
Rename(g) ==
  /\ subject' = [subject EXCEPT ![g] = @ + 1]
  /\ news' = Append(news, [chat |-> g, name |-> Subject(subject[g] + 1)])
  /\ Event
  /\ UNCHANGED <<tables, sources, cache, misnamed, user, repair>>

\* A contact is learned: from app state or history by the worker, or by whatsmeow, whose
\* store is read too.
LearnContact(i) ==
  /\ Event
  /\ \/ i \notin saved /\ saved' = saved \cup {i} /\ UNCHANGED pushed
     \/ i \notin pushed /\ pushed' = pushed \cup {i} /\ UNCHANGED saved
  /\ UNCHANGED <<tables, mapped, cache, network, user, repair>>

\* whatsmeow learns the other identity of a peer.
LearnMapping(p) ==
  /\ Event /\ p \notin mapped
  /\ mapped' = mapped \cup {p}
  /\ UNCHANGED <<tables, saved, pushed, cache, network, user, repair>>

\* The process ends and is started again.  The tables remain; news that was in the worker's
\* queue is lost.
Crash ==
  /\ Fault
  /\ cache' = [c \in Chats |-> NoEntry]
  /\ user' = [u \in Users |-> IdleUser] /\ repair' = IdleRepair
  /\ \E n \in 1..Len(news) + 1 : news' = SubSeq(news, n, Len(news))
  /\ UNCHANGED <<tables, sources, subject, misnamed>>

Next ==
  \/ \E u \in Users : UserStep(u)
  \/ StoreContact \/ StoreGroup
  \/ \E c \in Chats : Expire(c) \/ BeginList(c) \/ BeginSend(c) \/ StoreConversation(c)
  \/ \E c \in Chats, hint \in BOOLEAN : BeginMessage(c, hint)
  \/ Kick \/ RepairStep
  \/ \E g \in Groups : Rename(g)
  \/ \E i \in Identities : LearnContact(i)
  \/ \E p \in Peers : LearnMapping(p)
  \/ Crash

Spec == Init /\ [][Next]_vars

\* Whoever has begun goes on, and entries of the cache expire.
FairSpec ==
  /\ Spec
  /\ WF_vars(WorkerStep) /\ WF_vars(UserStep("list")) /\ WF_vars(UserStep("send"))
  /\ WF_vars(RepairStep) /\ \A c \in Chats : WF_vars(Expire(c))

-----------------------------------------------------------------------------
(* Properties                                                              *)

TypeOK ==
  /\ chats \in [Chats -> RealNames \cup {Name("absent"), NoName, Name("raw")}]
  /\ \A c \in Chats \ Raw : chats[c] # Name("raw")   \* what stands in for a name is not stored
  /\ groups \in [Groups -> SubjectNames \cup {NoName}]
  /\ saved \subseteq Identities /\ pushed \subseteq Identities /\ mapped \subseteq Peers
  /\ cache \in [Chats -> [name : RealNames \cup Fallbacks \cup {NoName}, resolved : BOOLEAN]]
  /\ subject \in [Groups -> Nat \ {0}] /\ misnamed \subseteq Misnamed
  /\ news \in Seq([chat : Groups, name : SubjectNames])
  /\ user \in [Users -> [at : {"idle", "look", "remember", "write", "contact"},
                        chat : Chats \cup {NoChat}, hint : BOOLEAN,
                        name : RealNames \cup Fallbacks \cup {NoName}, resolved : BOOLEAN]]
  /\ repair \in [at : {"idle", "next", "fetch", "group", "compare", "apply"},
                 todo : SUBSET Groups, chat : Groups \cup {NoChat},
                 name : SubjectNames \cup {NoName}, queries : Nat]
  /\ budget \in [events : Nat, faults : Nat]

\* A group is named by one of its subjects, never after a participant unless an older build
\* did; a direct chat is named by its peer's names, and keeps a raw identifier only where an
\* older build stored one.
TrueName ==
  /\ \A g \in Groups :
       /\ chats[g].kind \in {"absent", "none", "subject"} \/ (g \in misnamed /\ chats[g].kind = "participant")
       /\ chats[g].version <= subject[g] /\ groups[g].version <= subject[g]
  /\ \A p \in Peers :
       chats[p].kind \in {"absent", "none", "saved", "push"} \/ (p \in Raw /\ chats[p].kind = "raw")

\* A direct chat that is listed again and again gets its name once one is known for its peer:
\* a miss is not remembered for ever, and what stood in for the name is not in its way.
\* A pass of the repair gives a group its subject, a misnamed one too, unless something failed
\* or more groups need the network than a pass may ask about.
LearnsName ==
  /\ \A p \in Peers :
       []<>(user["list"].chat = p) => ((Known(p, {}) # NoName) ~> ChatNameResolved(chats[p]))
  /\ \A g \in Groups :
       g \in repair.todo ~>
         \/ chats[g].kind = "subject"
         \/ budget.faults < MaxFaults
         \/ repair.queries + Cardinality({h \in repair.todo : groups[h] = NoName}) > MaxPerRun

\* What persist.go says of the name the worker resolves for a message: for a group, the
\* authoritative subject.  With a subject in cae_groups it renames the chat to that alone.
SubjectKept ==
  [][\A g \in Groups :
       user["worker"].at = "write" /\ user'["worker"].at # "write" /\ user["worker"].chat = g
         /\ groups[g] # NoName => chats'[g] \in {chats[g], groups[g]}]_vars

=============================================================================
