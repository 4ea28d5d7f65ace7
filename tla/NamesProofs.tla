---------------------------- MODULE NamesProofs ----------------------------
(***************************************************************************)
(* Proofs about Names.tla, for any groups, peers, cache sizes and bounds.  *)
(*                                                                         *)
(* The argument: a name never loses its chat.  Whatever is in a table, in  *)
(* the cache, in the hands of a user or of the repair, or on its way to    *)
(* the worker, is a name that chat has had, or something that stands in    *)
(* for one and is marked as such, so that nobody stores it.  Subjects are  *)
(* only added, so what is a group's own stays its own.                     *)
(***************************************************************************)
EXTENDS Names, SequenceTheorems, TLAPS

\* The subjects a group has had.
SubjectsOf(g) == {n \in SubjectNames : n.version <= subject[g]}

\* The names of a chat's own, none included.
Own(c) ==
  {NoName} \cup
    IF c \in Groups THEN SubjectsOf(c) \cup (IF c \in misnamed THEN {Name("participant")} ELSE {})
    ELSE {Name("saved"), Name("push")}

\* What its row can hold: also what an older build stored.
RowNames(c) == Own(c) \cup {Name("absent")} \cup (IF c \in Raw THEN {Name("raw")} ELSE {})

\* What the resolver can answer.
Answers(c) == Own(c) \cup Fallbacks

AllNames == RealNames \cup Fallbacks \cup {NoName, Name("absent")}

NetworkOK == subject \in [Groups -> Nat \ {0}] /\ misnamed \subseteq Misnamed

TablesOK ==
  /\ chats \in [Chats -> AllNames] /\ groups \in [Groups -> SubjectNames \cup {NoName}]
  /\ \A c \in Chats : chats[c] \in RowNames(c)
  /\ \A g \in Groups : groups[g] \in SubjectsOf(g) \cup {NoName}

SourcesOK == saved \subseteq Identities /\ pushed \subseteq Identities /\ mapped \subseteq Peers

CacheOK ==
  /\ cache \in [Chats -> [name : RealNames \cup Fallbacks \cup {NoName}, resolved : BOOLEAN]]
  /\ \A c \in Chats : cache[c].name \in Answers(c)

NewsOK ==
  /\ news \in Seq([chat : Groups, name : SubjectNames])
  /\ \A i \in 1..Len(news) : news[i].name \in SubjectsOf(news[i].chat)

UserTypes ==
  [at : {"idle", "look", "remember", "write", "contact"}, chat : Chats \cup {NoChat},
   hint : BOOLEAN, name : RealNames \cup Fallbacks \cup {NoName}, resolved : BOOLEAN]

\* Whoever has a name in hand has it for its chat, and knows whether it is one.
UserOK ==
  /\ user \in [Users -> UserTypes]
  /\ \A u \in Users :
       /\ user[u].at # "idle" => user[u].chat \in Chats
       /\ user[u].at \in {"remember", "write"} =>
            /\ user[u].name \in Answers(user[u].chat)
            /\ user[u].resolved => user[u].name \in Own(user[u].chat)

RepairTypes ==
  [at : {"idle", "next", "fetch", "group", "compare", "apply"}, todo : SUBSET Groups,
   chat : Groups \cup {NoChat}, name : SubjectNames \cup {NoName}, queries : Nat]

RepairOK ==
  /\ repair \in RepairTypes
  /\ repair.at \in {"fetch", "group", "compare", "apply"} => repair.chat \in Groups
  /\ repair.at \in {"group", "compare", "apply"} => repair.name \in SubjectsOf(repair.chat)

BudgetOK == budget \in [events : Nat, faults : Nat]

\* The inductive invariant.
IInv ==
  /\ NetworkOK /\ TablesOK /\ SourcesOK /\ CacheOK
  /\ NewsOK /\ UserOK /\ RepairOK /\ BudgetOK

-----------------------------------------------------------------------------
(* Names                                                                   *)

\* Own names are real ones or none.
LEMMA OwnTyped ==
  ASSUME NEW c \in Chats
  PROVE  /\ Own(c) \subseteq RealNames \cup {NoName}
         /\ Own(c) \cap Fallbacks = {} /\ Name("absent") \notin Own(c)
  BY DEF Own, SubjectsOf, SubjectNames, RealNames, Fallbacks, Name, NoName

\* A chat's own names stay its own: subjects are only added.
LEMMA OwnGrows ==
  ASSUME NetworkOK, misnamed' = misnamed,
         \/ subject' = subject
         \/ \E g \in Groups : subject' = [subject EXCEPT ![g] = @ + 1]
  PROVE  /\ \A g \in Groups : SubjectsOf(g) \subseteq SubjectsOf(g)'
         /\ \A c \in Chats : Own(c) \subseteq Own(c)' /\ RowNames(c) \subseteq RowNames(c)'
                              /\ Answers(c) \subseteq Answers(c)'
<1>1. \A g \in Groups : subject[g] \in Nat /\ subject'[g] \in Nat /\ subject[g] <= subject'[g]
  BY DEF NetworkOK
<1>2. \A g \in Groups : SubjectsOf(g) \subseteq SubjectsOf(g)'
  BY <1>1 DEF SubjectsOf, SubjectNames
<1>3. \A c \in Chats : Own(c) \subseteq Own(c)'
  BY <1>2 DEF Own
<1> QED BY <1>2, <1>3 DEF RowNames, Answers

\* What the tables and the store know of a chat is its own.
LEMMA KnownIsOwn ==
  ASSUME TablesOK, NEW c \in Chats, NEW missed PROVE Known(c, missed) \in Own(c)
<1>1. CASE c \in Groups
  <2>1. groups[c] # NoName => groups[c] \in Own(c)
    BY <1>1 DEF TablesOK, Own
  <2>2. ChatNameResolved(chats[c]) => chats[c] \in Own(c)
    BY DEF TablesOK, RowNames, ChatNameResolved, Name
  <2> QED BY <1>1, <2>1, <2>2 DEF Known, Own
<1>2. CASE c \notin Groups
  BY <1>2 DEF Known, Own
<1> QED BY <1>1, <1>2

\* So the resolver answers with one of the chat's own names, or with a fallback.
LEMMA ResolveAnswers ==
  ASSUME TablesOK, NEW c \in Chats, NEW hint \in BOOLEAN, hint => c \in Peers, NEW missed
  PROVE  resolve(c, hint, missed) \in Answers(c)
<1>1. Known(c, missed) \in Answers(c)
  BY KnownIsOwn DEF Answers
<1>2. hint => Name("push") \in Answers(c)
  BY NamesAssumption DEF Answers, Own
<1>3. Fallback(c, missed) \in Answers(c)
  BY DEF Fallback, Answers, Fallbacks
<1> QED BY <1>1, <1>2, <1>3 DEF resolve

\* A row that is written an own name holds what a row may hold.
LEMMA UpsertChatKeeps ==
  ASSUME NetworkOK, TablesOK, NEW c \in Chats, NEW name \in Own(c), UpsertChat(c, name),
         UNCHANGED <<groups, subject, misnamed>>
  PROVE  TablesOK'
<1>1. name \in AllNames
  BY OwnTyped DEF AllNames
<1>2. chats' \in [Chats -> AllNames]
  BY <1>1 DEF TablesOK, UpsertChat
<1>3. \A d \in Chats : RowNames(d)' = RowNames(d)
  BY DEF RowNames, Own, SubjectsOf
<1>4. \A d \in Chats : chats'[d] \in RowNames(d)
  BY DEF TablesOK, UpsertChat, RowNames
<1>5. \A g \in Groups : groups'[g] \in SubjectsOf(g)' \cup {NoName}
  BY DEF TablesOK, SubjectsOf
<1> QED BY <1>2, <1>3, <1>4, <1>5 DEF TablesOK

\* Likewise a group's.
LEMMA UpsertGroupKeeps ==
  ASSUME NetworkOK, TablesOK, NEW g \in Groups, NEW name \in SubjectsOf(g), UpsertGroup(g, name),
         UNCHANGED <<chats, subject, misnamed>>
  PROVE  TablesOK'
<1>1. name \in SubjectNames
  BY DEF SubjectsOf
<1>2. groups' \in [Groups -> SubjectNames \cup {NoName}]
  BY <1>1 DEF TablesOK, UpsertGroup
<1>3. \A d \in Chats : RowNames(d)' = RowNames(d)
  BY DEF RowNames, Own, SubjectsOf
<1>4. \A h \in Groups : groups'[h] \in SubjectsOf(h)' \cup {NoName}
  BY DEF TablesOK, SubjectsOf, UpsertGroup
<1> QED BY <1>2, <1>3, <1>4 DEF TablesOK

-----------------------------------------------------------------------------
(* What a step leaves alone                                                *)

LEMMA TablesFrame ==
  ASSUME TablesOK, UNCHANGED <<tables, subject, misnamed>> PROVE TablesOK'
  BY DEF TablesOK, tables, RowNames, Own, SubjectsOf

LEMMA CacheFrame ==
  ASSUME CacheOK, UNCHANGED <<cache, subject, misnamed>> PROVE CacheOK'
  BY DEF CacheOK, Answers, Own, SubjectsOf

LEMMA NewsFrame ==
  ASSUME NewsOK, UNCHANGED <<news, subject>> PROVE NewsOK'
  BY DEF NewsOK, SubjectsOf

LEMMA UserFrame ==
  ASSUME UserOK, UNCHANGED <<user, subject, misnamed>> PROVE UserOK'
  BY DEF UserOK, Answers, Own, SubjectsOf

LEMMA RepairStays ==
  ASSUME RepairOK, UNCHANGED <<repair, subject>> PROVE RepairOK'
  BY DEF RepairOK, SubjectsOf

\* An idle user, or one with a name for its chat, takes the place of any other.
LEMMA UserReplaced ==
  ASSUME UserOK, UNCHANGED <<subject, misnamed>>, NEW u \in Users, NEW new \in UserTypes,
         user' = [user EXCEPT ![u] = new],
         new.at # "idle" => new.chat \in Chats,
         new.at \in {"remember", "write"} =>
           /\ new.name \in Answers(new.chat)
           /\ new.resolved => new.name \in Own(new.chat)
  PROVE  UserOK'
<1>1. \A c : Answers(c)' = Answers(c) /\ Own(c)' = Own(c)
  BY DEF Answers, Own, SubjectsOf
<1>2. user' \in [Users -> UserTypes]
  BY DEF UserOK
<1>3. user'[u] = new /\ \A v \in Users \ {u} : user'[v] = user[v]
  BY DEF UserOK
<1> QED BY <1>1, <1>2, <1>3 DEF UserOK

LEMMA IdleUserTyped == IdleUser \in UserTypes /\ IdleUser.at = "idle"
  BY DEF IdleUser, UserTypes

-----------------------------------------------------------------------------
(* The users                                                               *)

\* What is looked up is one of the chat's own names, or is marked as none of them.
LEMMA ResolveStep ==
  ASSUME IInv, NEW u \in Users, Resolve(u) PROVE IInv'
<1> DEFINE c == user[u].chat
<1> DEFINE hint == user[u].hint /\ HintNames(c)
<1>1. user[u] \in UserTypes /\ c \in Chats /\ hint \in BOOLEAN /\ (hint => c \in Peers)
  BY DEF IInv, UserOK, UserTypes, Resolve, HintNames
<1>2. cache[c].name \in Answers(c) /\ \A missed : resolve(c, hint, missed) \in Answers(c)
  <2>1. cache[c].name \in Answers(c)
    BY <1>1 DEF IInv, CacheOK
  <2>2. \A missed : resolve(c, hint, missed) \in Answers(c)
    BY <1>1, ResolveAnswers DEF IInv
  <2> QED BY <2>1, <2>2
<1>3. PICK at \in {"write", "remember"}, name \in Answers(c) : GoOn(u, at, name)
  BY <1>2 DEF Resolve
<1> DEFINE new == [user[u] EXCEPT !.at = at, !.name = name, !.resolved = name \notin Fallbacks]
<1>4. user' = [user EXCEPT ![u] = new]
  BY <1>1, <1>3 DEF GoOn, IInv, UserOK, UserTypes
<1>5. new \in UserTypes /\ new.chat = c /\ new.name = name /\ new.resolved = (name \notin Fallbacks)
  <2>1. name \in RealNames \cup Fallbacks \cup {NoName}
    BY <1>1, OwnTyped DEF Answers
  <2> QED BY <2>1, <1>1 DEF UserTypes
<1>6. UserOK'
  <2>1. name \notin Fallbacks => name \in Own(c)
    BY DEF Answers
  <2> HIDE DEF new, c
  <2> QED BY <1>1, <1>4, <1>5, <2>1, UserReplaced DEF IInv, Resolve, network
<1>7. BudgetOK'
  BY DEF IInv, BudgetOK, Resolve, Fault
<1> QED
  BY <1>6, <1>7, TablesFrame, CacheFrame, NewsFrame, RepairStays
  DEF IInv, Resolve, network, sources, tables, NetworkOK, SourcesOK

\* A name in hand is what the cache gets.
LEMMA RememberStep ==
  ASSUME IInv, NEW u \in Users, Remember(u) PROVE IInv'
<1> DEFINE c == user[u].chat
<1>1. /\ user[u] \in UserTypes /\ c \in Chats /\ user[u].name \in Answers(c)
      /\ user[u].resolved => user[u].name \in Own(c)
  BY DEF IInv, UserOK, Remember
<1>2. UserOK'
  <2>1. user' = [user EXCEPT ![u] = [user[u] EXCEPT !.at = "write"]]
    BY DEF Remember
  <2> DEFINE new == [user[u] EXCEPT !.at = "write"]
  <2>2. new \in UserTypes /\ new.chat = c /\ new.name = user[u].name /\ new.resolved = user[u].resolved
    BY <1>1 DEF UserTypes
  <2> HIDE DEF new
  <2> QED BY <1>1, <2>1, <2>2, UserReplaced DEF IInv, Remember, network, new
<1>3. CacheOK'
  <2> DEFINE entry == [name |-> user[u].name, resolved |-> user[u].resolved]
  <2>1. PICK kept : /\ kept \in {cache, [d \in Chats |-> NoEntry]}
                    /\ cache' = [kept EXCEPT ![c] = entry]
    BY DEF Remember
  <2>2. NoEntry \in [name : RealNames \cup Fallbacks \cup {NoName}, resolved : BOOLEAN]
    BY DEF NoEntry
  <2>3. \A d \in Chats : NoEntry.name \in Answers(d)
    BY DEF NoEntry, Answers, Own
  <2>4. /\ kept \in [Chats -> [name : RealNames \cup Fallbacks \cup {NoName}, resolved : BOOLEAN]]
        /\ \A d \in Chats : kept[d].name \in Answers(d)
    BY <2>1, <2>2, <2>3 DEF IInv, CacheOK
  <2>5. entry \in [name : RealNames \cup Fallbacks \cup {NoName}, resolved : BOOLEAN]
    BY <1>1 DEF UserTypes
  <2>6. \A d \in Chats : Answers(d)' = Answers(d)
    BY DEF Remember, network, Answers, Own, SubjectsOf
  <2> QED BY <1>1, <2>1, <2>4, <2>5, <2>6 DEF CacheOK
<1> QED
  BY <1>2, <1>3, TablesFrame, NewsFrame, RepairStays
  DEF IInv, Remember, network, sources, tables, NetworkOK, SourcesOK, BudgetOK

\* What is stored is a chat's own name or none: never what stands in for one.
LEMMA WriteChatStep ==
  ASSUME IInv, NEW u \in Users, WriteChat(u) PROVE IInv'
<1>1. /\ user[u] \in UserTypes /\ user[u].chat \in Chats
      /\ NameToStore(u) \in Own(user[u].chat)
  BY DEF IInv, UserOK, WriteChat, NameToStore, Own
<1>2. TablesOK'
  <2>1. CASE UNCHANGED chats
    BY <2>1, TablesFrame DEF IInv, WriteChat, network, tables
  <2>2. CASE UpsertChat(user[u].chat, NameToStore(u))
    BY <1>1, <2>2, UpsertChatKeeps DEF IInv, WriteChat, network
  <2> QED BY <2>1, <2>2 DEF WriteChat
<1>3. UserOK'
  <2>1. PICK new \in {[user[u] EXCEPT !.at = "contact"], IdleUser} : user' = [user EXCEPT ![u] = new]
    BY DEF WriteChat
  <2>2. new \in UserTypes /\ (new.at # "idle" => new.chat \in Chats) /\ new.at \in {"idle", "contact"}
    BY <1>1, IdleUserTyped DEF UserTypes
  <2> QED BY <2>1, <2>2, UserReplaced DEF IInv, WriteChat, network
<1>4. BudgetOK'
  BY DEF IInv, BudgetOK, WriteChat, Fault
<1> QED
  BY <1>2, <1>3, <1>4, CacheFrame, NewsFrame, RepairStays
  DEF IInv, WriteChat, network, sources, NetworkOK, SourcesOK

LEMMA StoreContactStep ==
  ASSUME IInv, StoreContact PROVE IInv'
<1>1. "worker" \in Users /\ user["worker"].chat \in Chats
  BY DEF Users, IInv, UserOK, StoreContact
<1>2. pushed' \subseteq Identities
  BY <1>1 DEF IInv, SourcesOK, StoreContact, Identities, Chats
<1>3. UserOK'
  BY <1>1, IdleUserTyped, UserReplaced DEF IInv, StoreContact, network
<1>4. BudgetOK'
  BY DEF IInv, BudgetOK, StoreContact, Fault
<1> QED
  BY <1>2, <1>3, <1>4, TablesFrame, CacheFrame, NewsFrame, RepairStays
  DEF IInv, StoreContact, network, tables, NetworkOK, SourcesOK

\* What is left of the news after the first is news still.
LEMMA TailKeepsNews ==
  ASSUME NewsOK, news # <<>>, news' = Tail(news), UNCHANGED subject
  PROVE  /\ NewsOK'
         /\ Head(news).chat \in Groups /\ Head(news).name \in SubjectsOf(Head(news).chat)
<1> DEFINE T == [chat : Groups, name : SubjectNames]
<1>1. /\ Tail(news) \in Seq(T) /\ Len(Tail(news)) = Len(news) - 1
      /\ \A i \in 1..Len(Tail(news)) : Tail(news)[i] = news[i + 1]
      /\ Len(news) \in Nat /\ Len(news) >= 1 /\ Head(news) = news[1] /\ Head(news) \in T
  <2>1. news \in Seq(T)
    BY DEF NewsOK
  <2>2. Len(news) \in Nat /\ Len(news) >= 1 /\ Head(news) = news[1]
    BY <2>1, EmptySeq DEF NewsOK
  <2> QED BY <2>1, <2>2, HeadTailProperties
<1> HIDE DEF T
<1>2. \A i \in 1..Len(news') : news'[i].name \in SubjectsOf(news'[i].chat)
  <2> SUFFICES ASSUME NEW i \in 1..Len(news') PROVE news'[i].name \in SubjectsOf(news'[i].chat)
    OBVIOUS
  <2>1. i + 1 \in 1..Len(news) /\ news'[i] = news[i + 1]
    BY <1>1
  <2> QED BY <2>1 DEF NewsOK
<1>3. \A g : SubjectsOf(g)' = SubjectsOf(g)
  BY DEF SubjectsOf
<1>4. Head(news).name \in SubjectsOf(Head(news).chat)
  BY <1>1 DEF NewsOK
<1> QED BY <1>1, <1>2, <1>3, <1>4 DEF NewsOK, T

\* A subject from the news is the group's own.
LEMMA StoreGroupStep ==
  ASSUME IInv, StoreGroup PROVE IInv'
<1> DEFINE g == Head(news).chat
<1> DEFINE name == Head(news).name
<1>1. NewsOK' /\ g \in Groups /\ name \in SubjectsOf(g)
  BY TailKeepsNews DEF IInv, StoreGroup
<1>2. name \in SubjectNames /\ name \in Own(g) /\ g \in Chats
  BY <1>1 DEF SubjectsOf, Own, Chats
<1>3. CASE UNCHANGED <<groups, user>>
  <2>1. BudgetOK'
    BY <1>3 DEF IInv, BudgetOK, StoreGroup, Fault
  <2> QED
    BY <1>1, <1>3, <2>1, TablesFrame, CacheFrame, UserFrame, RepairStays
    DEF IInv, StoreGroup, sources, tables, NetworkOK, SourcesOK
<1> DEFINE new == [IdleUser EXCEPT !.at = "write", !.chat = g, !.name = name, !.resolved = TRUE]
<1>4. CASE UpsertGroup(g, name) /\ user' = [user EXCEPT !["worker"] = new] /\ UNCHANGED budget
  <2>1. TablesOK'
    BY <1>1, <1>4, UpsertGroupKeeps DEF IInv, StoreGroup
  <2>2. new \in UserTypes /\ new.chat = g /\ new.name = name
    BY <1>2 DEF IdleUser, UserTypes, RealNames
  <2>3. UserOK'
    <3> HIDE DEF new, g, name
    <3>1. "worker" \in Users
      BY DEF Users
    <3> QED BY <1>2, <1>4, <2>2, <3>1, UserReplaced DEF IInv, StoreGroup, Answers
  <2> QED
    BY <1>1, <1>4, <2>1, <2>3, CacheFrame, RepairStays
    DEF IInv, StoreGroup, sources, NetworkOK, SourcesOK, BudgetOK
<1> QED BY <1>3, <1>4 DEF StoreGroup

LEMMA BeginStep ==
  ASSUME IInv, NEW c \in Chats,
         BeginList(c) \/ BeginSend(c) \/ \E hint \in BOOLEAN : BeginMessage(c, hint)
  PROVE  IInv'
<1>1. PICK u \in Users, new \in UserTypes :
        /\ user' = [user EXCEPT ![u] = new] /\ new.chat = c
        /\ new.at = "look" \/ (new.at = "write" /\ new.name \in Own(c))
  <2> "worker" \in Users /\ "list" \in Users /\ "send" \in Users
    BY DEF Users
  <2>1. \A h \in BOOLEAN :
          LET new == [IdleUser EXCEPT !.at = "look", !.chat = c, !.hint = h]
          IN  new \in UserTypes /\ new.chat = c /\ new.at = "look"
    BY DEF IdleUser, UserTypes
  <2>2. LET new == [IdleUser EXCEPT !.at = "look", !.chat = c]
        IN  new \in UserTypes /\ new.chat = c /\ new.at = "look"
    BY DEF IdleUser, UserTypes
  <2>3. CASE \E hint \in BOOLEAN : BeginMessage(c, hint)
    BY <2>1, <2>3 DEF BeginMessage
  <2>4. CASE BeginList(c)
    BY <2>2, <2>4 DEF BeginList
  <2>5. CASE BeginSend(c) /\ ~ChatNameResolved(chats[c])
    BY <2>2, <2>5 DEF BeginSend
  <2>6. CASE BeginSend(c) /\ ChatNameResolved(chats[c])
    <3> DEFINE new == [IdleUser EXCEPT !.at = "write", !.chat = c, !.name = chats[c], !.resolved = TRUE]
    <3>1. chats[c] \in Own(c)
      BY <2>6 DEF IInv, TablesOK, RowNames, ChatNameResolved, Name
    <3>2. new \in UserTypes /\ new.chat = c /\ new.at = "write" /\ new.name = chats[c]
      BY <3>1, OwnTyped DEF IdleUser, UserTypes
    <3> QED BY <2>6, <3>1, <3>2 DEF BeginSend
  <2> QED BY <2>3, <2>4, <2>5, <2>6
<1>2. UNCHANGED <<tables, sources, cache, network, repair>> /\ (UNCHANGED budget \/ Event)
  BY DEF BeginList, BeginSend, BeginMessage
<1>3. BudgetOK'
  BY <1>2 DEF Event, IInv, BudgetOK
<1>4. UserOK'
  BY <1>1, <1>2, UserReplaced DEF IInv, network, Answers
<1> QED
  BY <1>2, <1>3, <1>4, TablesFrame, CacheFrame, NewsFrame, RepairStays
  DEF IInv, network, sources, tables, NetworkOK, SourcesOK

\* A conversation brings one of the chat's own names.
LEMMA StoreConversationStep ==
  ASSUME IInv, NEW c \in Chats, StoreConversation(c) PROVE IInv'
<1>1. PICK name \in IF c \in Groups THEN {Subject(n) : n \in 1..subject[c]}
                                     ELSE {Name("saved"), Name("push")} : UpsertChat(c, name)
  BY DEF StoreConversation
<1>2. name \in Own(c)
  BY DEF Own, SubjectsOf, SubjectNames, Subject, IInv, NetworkOK
<1>3. TablesOK'
  BY <1>1, <1>2, UpsertChatKeeps DEF IInv, StoreConversation, network
<1>4. SourcesOK' /\ BudgetOK'
  BY DEF IInv, SourcesOK, BudgetOK, StoreConversation, Event, Identities
<1> QED
  BY <1>3, <1>4, CacheFrame, NewsFrame, UserFrame, RepairStays
  DEF IInv, StoreConversation, network, NetworkOK

-----------------------------------------------------------------------------
(* The repair                                                              *)

LEMMA KickStep ==
  ASSUME IInv, Kick PROVE IInv'
<1>1. RepairOK'
  <2>1. PICK listed : repair' = [IdleRepair EXCEPT !.at = "next", !.todo = listed \cap Groups]
    BY DEF Kick
  <2>2. repair' = [at |-> "next", todo |-> listed \cap Groups, chat |-> NoChat, name |-> NoName,
                   queries |-> 0]
    BY <2>1 DEF IdleRepair
  <2> QED BY <2>2 DEF RepairOK, RepairTypes
<1>2. BudgetOK'
  BY DEF IInv, BudgetOK, Kick, Event
<1> QED
  BY <1>1, <1>2, TablesFrame, CacheFrame, NewsFrame, UserFrame
  DEF IInv, Kick, RepairFrame, network, sources, NetworkOK, SourcesOK

\* The repair takes a subject from the table, which is the group's own.
LEMMA NextGroupStep ==
  ASSUME IInv, NextGroup PROVE IInv'
<1>0. IdleRepair \in RepairTypes /\ IdleRepair.at = "idle" /\ repair \in RepairTypes
  BY DEF IdleRepair, RepairTypes, IInv, RepairOK
<1>1. RepairOK'
  <2>1. CASE repair' = IdleRepair
    BY <1>0, <2>1 DEF RepairOK
  <2>2. ASSUME NEW g \in repair.todo, groups[g] # NoName,
               repair' = [repair EXCEPT !.at = "compare", !.todo = @ \ {g}, !.chat = g, !.name = groups[g]]
        PROVE  RepairOK'
    <3>1. g \in Groups /\ groups[g] \in SubjectsOf(g) /\ groups[g] \in SubjectNames
      BY <1>0, <2>2 DEF RepairTypes, IInv, TablesOK, SubjectsOf
    <3>2. SubjectsOf(g)' = SubjectsOf(g)
      BY DEF NextGroup, RepairFrame, network, SubjectsOf
    <3>3. repair' \in RepairTypes /\ repair'.chat = g /\ repair'.name = groups[g]
      BY <1>0, <2>2, <3>1 DEF RepairTypes
    <3> QED BY <3>1, <3>2, <3>3 DEF RepairOK
  <2>3. ASSUME NEW g \in repair.todo,
               repair' = [repair EXCEPT !.at = "fetch", !.todo = @ \ {g}, !.chat = g, !.queries = @ + 1]
        PROVE  RepairOK'
    <3>1. g \in Groups /\ repair.queries + 1 \in Nat /\ repair.todo \ {g} \in SUBSET Groups
      BY <1>0 DEF RepairTypes
    <3>2. repair' = [at |-> "fetch", todo |-> repair.todo \ {g}, chat |-> g, name |-> repair.name,
                     queries |-> repair.queries + 1]
      BY <1>0, <2>3 DEF RepairTypes
    <3>3. repair' \in RepairTypes /\ repair'.chat = g /\ repair'.at = "fetch"
      BY <1>0, <3>1, <3>2 DEF RepairTypes
    <3> QED BY <3>1, <3>3 DEF RepairOK
  <2> QED BY <2>1, <2>2, <2>3 DEF NextGroup, Visit
<1>2. BudgetOK'
  BY DEF IInv, BudgetOK, NextGroup, Fault
<1> QED
  BY <1>1, <1>2, TablesFrame, CacheFrame, NewsFrame, UserFrame
  DEF IInv, NextGroup, RepairFrame, network, sources, tables, NetworkOK, SourcesOK

\* A pass goes on with a subject of its group's, or with nothing in hand.
LEMMA RepairMoves ==
  ASSUME RepairOK, UNCHANGED subject, repair.chat \in Groups,
         \/ /\ repair' = [repair EXCEPT !.at = "next", !.chat = NoChat, !.name = NoName]
         \/ /\ repair.name \in SubjectsOf(repair.chat)
            /\ \E at \in {"compare", "apply"} : repair' = [repair EXCEPT !.at = at]
  PROVE  RepairOK'
<1>1. repair \in RepairTypes
  BY DEF RepairOK
<1> QED BY <1>1 DEF RepairOK, RepairTypes, SubjectsOf

LEMMA FetchGroupStep ==
  ASSUME IInv, FetchGroup PROVE IInv'
<1> DEFINE g == repair.chat
<1>0. repair \in RepairTypes /\ g \in Groups /\ UNCHANGED subject
  BY DEF IInv, RepairOK, FetchGroup, RepairFrame, network
<1>1. RepairOK'
  <2>1. CASE RepairFails
    BY <1>0, <2>1, RepairMoves DEF IInv, RepairFails
  <2>2. CASE repair' = [repair EXCEPT !.at = "group", !.name = Subject(subject[g])]
    <3>1. Subject(subject[g]) \in SubjectsOf(g)
      BY <1>0 DEF Subject, SubjectsOf, SubjectNames, IInv, NetworkOK
    <3>2. repair' \in RepairTypes /\ repair'.chat = g /\ repair'.name \in SubjectsOf(g)
      BY <1>0, <2>2, <3>1 DEF RepairTypes, SubjectsOf
    <3> QED BY <1>0, <3>2 DEF RepairOK, SubjectsOf
  <2> QED BY <2>1, <2>2 DEF FetchGroup
<1>2. BudgetOK'
  BY DEF IInv, BudgetOK, FetchGroup, RepairFails, Fault
<1> QED
  BY <1>1, <1>2, TablesFrame, CacheFrame, NewsFrame, UserFrame
  DEF IInv, FetchGroup, RepairFrame, network, sources, NetworkOK, SourcesOK

LEMMA RepairGroupStep ==
  ASSUME IInv, RepairGroup PROVE IInv'
<1>0. /\ repair \in RepairTypes /\ repair.chat \in Groups /\ repair.name \in SubjectsOf(repair.chat)
      /\ UNCHANGED <<subject, misnamed, chats>>
  BY DEF IInv, RepairOK, RepairGroup, RepairFrame, network
<1>1. RepairOK'
  BY <1>0, RepairMoves DEF IInv, RepairGroup, RepairFails
<1>2. TablesOK'
  BY <1>0, UpsertGroupKeeps, TablesFrame DEF IInv, RepairGroup, tables
<1>3. BudgetOK'
  BY DEF IInv, BudgetOK, RepairGroup, RepairFails, Fault
<1> QED
  BY <1>1, <1>2, <1>3, CacheFrame, NewsFrame, UserFrame
  DEF IInv, RepairGroup, RepairFrame, network, sources, NetworkOK, SourcesOK

LEMMA CompareNameStep ==
  ASSUME IInv, CompareName PROVE IInv'
<1>0. /\ repair.chat \in Groups /\ repair.name \in SubjectsOf(repair.chat) /\ UNCHANGED subject
  BY DEF IInv, RepairOK, CompareName, RepairFrame, network
<1>1. RepairOK'
  BY <1>0, RepairMoves DEF IInv, CompareName
<1>2. BudgetOK'
  BY DEF IInv, BudgetOK, CompareName, Fault
<1> QED
  BY <1>1, <1>2, TablesFrame, CacheFrame, NewsFrame, UserFrame
  DEF IInv, CompareName, RepairFrame, network, sources, tables, NetworkOK, SourcesOK

LEMMA ApplyNameStep ==
  ASSUME IInv, ApplyName PROVE IInv'
<1>0. /\ repair.chat \in Groups /\ repair.name \in SubjectsOf(repair.chat)
      /\ UNCHANGED <<subject, misnamed, groups>>
  BY DEF IInv, RepairOK, ApplyName, RepairFrame, network
<1>1. RepairOK'
  BY <1>0, RepairMoves DEF IInv, ApplyName, RepairFails
<1>2. repair.chat \in Chats /\ repair.name \in Own(repair.chat)
  BY <1>0 DEF Own, Chats
<1>3. TablesOK'
  BY <1>0, <1>2, UpsertChatKeeps, TablesFrame DEF IInv, ApplyName, tables
<1>4. BudgetOK'
  BY DEF IInv, BudgetOK, ApplyName, RepairFails, Fault
<1> QED
  BY <1>1, <1>3, <1>4, CacheFrame, NewsFrame, UserFrame
  DEF IInv, ApplyName, RepairFrame, network, sources, NetworkOK, SourcesOK

-----------------------------------------------------------------------------
(* The network, whatsmeow's store, crashes                                 *)

LEMMA ExpireStep ==
  ASSUME IInv, NEW c \in Chats, Expire(c) PROVE IInv'
<1>1. CacheOK'
  <2>1. NoEntry \in [name : RealNames \cup Fallbacks \cup {NoName}, resolved : BOOLEAN]
    BY DEF NoEntry
  <2>2. \A d \in Chats : NoEntry.name \in Answers(d) /\ Answers(d)' = Answers(d)
    BY DEF NoEntry, Answers, Own, SubjectsOf, Expire, network
  <2> QED BY <2>1, <2>2 DEF IInv, CacheOK, Expire
<1> QED
  BY <1>1, TablesFrame, NewsFrame, UserFrame, RepairStays
  DEF IInv, Expire, network, sources, tables, NetworkOK, SourcesOK, BudgetOK

\* A new subject takes nothing away from those there were.
LEMMA RenameStep ==
  ASSUME IInv, NEW g \in Groups, Rename(g) PROVE IInv'
<1>0. /\ subject[g] \in Nat /\ subject' = [subject EXCEPT ![g] = @ + 1] /\ misnamed' = misnamed
      /\ UNCHANGED <<tables, sources, cache, user, repair>>
  BY DEF IInv, NetworkOK, Rename
<1>1. NetworkOK'
  BY <1>0 DEF IInv, NetworkOK
<1>2. /\ \A h \in Groups : SubjectsOf(h) \subseteq SubjectsOf(h)'
      /\ \A c \in Chats : /\ Own(c) \subseteq Own(c)' /\ RowNames(c) \subseteq RowNames(c)'
                         /\ Answers(c) \subseteq Answers(c)'
  BY <1>0, OwnGrows DEF IInv
<1>3. TablesOK' /\ CacheOK' /\ SourcesOK'
  BY <1>0, <1>2 DEF IInv, TablesOK, CacheOK, SourcesOK, tables, sources
<1>4. UserOK'
  BY <1>0, <1>2 DEF IInv, UserOK
<1>5. RepairOK'
  BY <1>0, <1>2 DEF IInv, RepairOK
<1>6. NewsOK'
  <2> DEFINE T == [chat : Groups, name : SubjectNames]
  <2>1. PICK e \in T : e.chat = g /\ e.name \in SubjectsOf(g)' /\ news' = Append(news, e)
    <3>1. LET name == Subject(subject[g] + 1)
          IN  name \in SubjectNames /\ name.version = subject[g] + 1
      BY <1>0 DEF Subject, SubjectNames
    <3>2. subject'[g] = subject[g] + 1
      BY <1>0 DEF IInv, NetworkOK
    <3> QED BY <1>0, <3>1, <3>2 DEF Rename, SubjectsOf
  <2>2. news \in Seq(T)
    BY DEF IInv, NewsOK
  <2> HIDE DEF T
  <2>3. /\ news' \in Seq(T) /\ Len(news') = Len(news) + 1 /\ news'[Len(news) + 1] = e
        /\ \A i \in 1..Len(news) : news'[i] = news[i]
    BY <2>1, <2>2, AppendProperties
  <2>4. \A i \in 1..Len(news) : news[i] \in T
    BY <2>2, ElementOfSeq
  <2>5. Len(news) \in Nat
    BY <2>2
  <2>6. ASSUME NEW i \in 1..Len(news') PROVE (news[i].name \in SubjectsOf(news[i].chat))'
    <3>1. CASE i = Len(news) + 1
      BY <2>1, <2>3, <3>1
    <3>2. CASE i # Len(news) + 1
      <4>1. i \in 1..Len(news) /\ news'[i] = news[i]
        BY <2>3, <2>5, <3>2
      <4>2. news[i].chat \in Groups /\ news[i].name \in SubjectsOf(news[i].chat)
        BY <2>4, <4>1 DEF T, IInv, NewsOK
      <4>3. news[i].name \in {n \in SubjectNames : n.version <= subject'[news[i].chat]}
        BY <1>2, <4>2 DEF SubjectsOf
      <4> QED BY <4>1, <4>3 DEF SubjectsOf
    <3> QED BY <3>1, <3>2
  <2> QED BY <2>3, <2>6 DEF NewsOK, T
<1>7. BudgetOK'
  BY DEF IInv, BudgetOK, Rename, Event
<1> QED BY <1>1, <1>3, <1>4, <1>5, <1>6, <1>7 DEF IInv

LEMMA LearnContactStep ==
  ASSUME IInv, NEW i \in Identities, LearnContact(i) PROVE IInv'
<1>1. SourcesOK' /\ BudgetOK'
  BY DEF IInv, SourcesOK, BudgetOK, LearnContact, Event
<1> QED
  BY <1>1, TablesFrame, CacheFrame, NewsFrame, UserFrame, RepairStays
  DEF IInv, LearnContact, network, NetworkOK

LEMMA LearnMappingStep ==
  ASSUME IInv, NEW p \in Peers, LearnMapping(p) PROVE IInv'
<1>1. SourcesOK' /\ BudgetOK'
  BY DEF IInv, SourcesOK, BudgetOK, LearnMapping, Event
<1> QED
  BY <1>1, TablesFrame, CacheFrame, NewsFrame, UserFrame, RepairStays
  DEF IInv, LearnMapping, network, NetworkOK

\* A crash takes some of the news, and everything in hand.
LEMMA CrashStep ==
  ASSUME IInv, Crash PROVE IInv'
<1>1. PICK n \in 1..Len(news) + 1 : news' = SubSeq(news, n, Len(news))
  BY DEF Crash
<1>2. UNCHANGED <<subject, misnamed, tables, sources>>
  BY DEF Crash
<1>3. NewsOK'
  <2> DEFINE T == [chat : Groups, name : SubjectNames]
  <2>1. news \in Seq(T) /\ Len(news) \in Nat /\ n \in Int /\ n >= 1 /\ n <= Len(news) + 1
    BY <1>1 DEF IInv, NewsOK
  <2> HIDE DEF T
  <2>2. \A i \in n..Len(news) : news[i] \in T
    BY <2>1, ElementOfSeq
  <2>3. /\ news' \in Seq(T) /\ Len(news') = Len(news) - n + 1
        /\ \A i \in 1..(Len(news) - n + 1) : news'[i] = news[n + i - 1]
    BY <1>1, <2>1, <2>2, SubSeqProperties
  <2>4. \A i \in 1..Len(news') : news'[i].name \in SubjectsOf(news'[i].chat)
    <3> SUFFICES ASSUME NEW i \in 1..Len(news') PROVE news'[i].name \in SubjectsOf(news'[i].chat)
      OBVIOUS
    <3>1. n + i - 1 \in 1..Len(news) /\ news'[i] = news[n + i - 1]
      BY <2>1, <2>3
    <3> QED BY <3>1 DEF IInv, NewsOK
  <2> QED BY <1>2, <2>3, <2>4 DEF NewsOK, T, SubjectsOf
<1>4. CacheOK'
  <2>1. NoEntry \in [name : RealNames \cup Fallbacks \cup {NoName}, resolved : BOOLEAN]
    BY DEF NoEntry
  <2>2. \A d \in Chats : NoEntry.name \in Answers(d)'
    BY DEF NoEntry, Answers, Own
  <2> QED BY <2>1, <2>2 DEF CacheOK, Crash
<1>5. UserOK'
  BY IdleUserTyped DEF UserOK, Crash
<1>6. RepairOK'
  BY DEF RepairOK, RepairTypes, IdleRepair, Crash
<1>7. BudgetOK'
  BY DEF IInv, BudgetOK, Crash, Fault
<1> QED
  BY <1>2, <1>3, <1>4, <1>5, <1>6, <1>7, TablesFrame
  DEF IInv, sources, NetworkOK, SourcesOK

-----------------------------------------------------------------------------
(* The theorems                                                            *)

LEMMA InitEstablishes == Init => IInv
<1> SUFFICES ASSUME Init PROVE IInv
  OBVIOUS
<1>1. NetworkOK /\ SourcesOK
  BY DEF Init, NetworkOK, SourcesOK
<1>2. TablesOK
  <2>1. \A c \in Chats :
          chats[c] = Name(IF c \in misnamed THEN "participant" ELSE IF c \in Raw THEN "raw" ELSE "absent")
    BY DEF Init
  <2>2. \A c \in Chats : c \in misnamed => c \in Groups
    BY NamesAssumption DEF Init
  <2>3. \A c \in Chats : chats[c] \in RowNames(c)
    BY <2>1, <2>2 DEF RowNames, Own
  <2>4. \A c \in Chats : chats[c] \in AllNames
    BY <2>1 DEF AllNames, RealNames, Fallbacks
  <2> QED BY <2>3, <2>4 DEF Init, TablesOK, Chats
<1>3. CacheOK
  BY DEF Init, CacheOK, NoEntry, Answers, Own
<1>4. NewsOK
  BY EmptySeq DEF Init, NewsOK
<1>5. UserOK
  BY IdleUserTyped DEF Init, UserOK
<1>6. RepairOK /\ BudgetOK
  BY NamesAssumption DEF Init, RepairOK, RepairTypes, IdleRepair, BudgetOK
<1> QED BY <1>1, <1>2, <1>3, <1>4, <1>5, <1>6 DEF IInv

LEMMA StepPreserves == IInv /\ [Next]_vars => IInv'
<1> SUFFICES ASSUME IInv, [Next]_vars PROVE IInv'
  OBVIOUS
<1>1. CASE \E u \in Users : UserStep(u)
  BY <1>1, ResolveStep, RememberStep, WriteChatStep DEF UserStep
<1>2. CASE StoreContact \/ StoreGroup
  BY <1>2, StoreContactStep, StoreGroupStep
<1>3. CASE \E c \in Chats : Expire(c) \/ BeginList(c) \/ BeginSend(c) \/ StoreConversation(c)
  BY <1>3, ExpireStep, BeginStep, StoreConversationStep
<1>4. CASE \E c \in Chats, hint \in BOOLEAN : BeginMessage(c, hint)
  BY <1>4, BeginStep
<1>5. CASE Kick \/ RepairStep
  BY <1>5, KickStep, NextGroupStep, FetchGroupStep, RepairGroupStep, CompareNameStep, ApplyNameStep
  DEF RepairStep
<1>6. CASE \E g \in Groups : Rename(g)
  BY <1>6, RenameStep
<1>7. CASE \/ \E i \in Identities : LearnContact(i)
           \/ \E p \in Peers : LearnMapping(p)
           \/ Crash
  BY <1>7, LearnContactStep, LearnMappingStep, CrashStep
<1>8. CASE UNCHANGED vars
  BY <1>8, TablesFrame, CacheFrame, NewsFrame, UserFrame, RepairStays
  DEF vars, network, tables, sources, IInv, NetworkOK, SourcesOK, BudgetOK
<1> QED BY <1>1, <1>2, <1>3, <1>4, <1>5, <1>6, <1>7, <1>8 DEF Next

LEMMA Inductive == Spec => []IInv
BY InitEstablishes, StepPreserves, PTL DEF Spec

\* Every variable has its type, and what stands in for a name is stored nowhere.
THEOREM TypeCorrect == Spec => []TypeOK
<1>1. IInv => TypeOK
  <2> SUFFICES ASSUME IInv PROVE TypeOK
    OBVIOUS
  <2>1. \A c \in Chats :
          /\ chats[c] \in RealNames \cup {Name("absent"), NoName, Name("raw")}
          /\ c \notin Raw => chats[c] # Name("raw")
    <3>1. \A c \in Chats : Name("raw") \notin Own(c)
      BY OwnTyped DEF Fallbacks
    <3>2. Name("raw") # Name("absent")
      BY DEF Name
    <3> QED BY <3>1, <3>2, OwnTyped DEF IInv, TablesOK, RowNames
  <2> QED
    BY <2>1
    DEF TypeOK, IInv, NetworkOK, TablesOK, SourcesOK, CacheOK, NewsOK, UserOK, UserTypes,
        RepairOK, RepairTypes, BudgetOK
<1> QED BY <1>1, Inductive, PTL

\* A chat is named by its own names only: a group by a subject it has had, a direct chat by
\* a name of its peer's.
THEOREM NamesAreTrue == Spec => []TrueName
<1>1. IInv => TrueName
  <2> SUFFICES ASSUME IInv PROVE TrueName
    OBVIOUS
  <2>1. ASSUME NEW g \in Groups
        PROVE  /\ chats[g].kind \in {"absent", "none", "subject"}
                    \/ (g \in misnamed /\ chats[g].kind = "participant")
               /\ chats[g].version <= subject[g] /\ groups[g].version <= subject[g]
    <3>1. g \notin Raw /\ g \in Chats /\ subject[g] \in Nat
      BY NamesAssumption DEF Chats, IInv, NetworkOK
    <3>2. \A n \in SubjectsOf(g) : n.kind = "subject" /\ n.version <= subject[g]
      BY DEF SubjectsOf, SubjectNames
    <3>3. chats[g] \in SubjectsOf(g) \cup {NoName, Name("absent")}
            \/ (g \in misnamed /\ chats[g] = Name("participant"))
      BY <3>1 DEF IInv, TablesOK, RowNames, Own
    <3>4. groups[g] \in SubjectsOf(g) \cup {NoName}
      BY DEF IInv, TablesOK
    <3>5. \A k : Name(k).kind = k /\ Name(k).version = 0
      BY DEF Name
    <3> QED BY <3>1, <3>2, <3>3, <3>4, <3>5 DEF NoName
  <2>2. ASSUME NEW p \in Peers
        PROVE  \/ chats[p].kind \in {"absent", "none", "saved", "push"}
               \/ (p \in Raw /\ chats[p].kind = "raw")
    <3>1. p \notin Groups /\ p \in Chats
      BY NamesAssumption DEF Chats
    <3>2. chats[p] \in {NoName, Name("saved"), Name("push"), Name("absent")}
            \/ (p \in Raw /\ chats[p] = Name("raw"))
      BY <3>1 DEF IInv, TablesOK, RowNames, Own
    <3> QED BY <3>2 DEF Name, NoName
  <2> QED BY <2>1, <2>2 DEF TrueName
<1> QED BY <1>1, Inductive, PTL

=============================================================================
