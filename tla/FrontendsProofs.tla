-------------------------- MODULE FrontendsProofs --------------------------
(***************************************************************************)
(* Proofs about Frontends, for any set of clients, any catalog and any     *)
(* number of permits.                                                      *)
(***************************************************************************)
EXTENDS Frontends, FiniteSetTheorems, TLAPS

Kinds == Servers \cup {"web"}
Live == {"accepted", "auth", "command", "query", "closing", "dropping", "panicked"}

\* The variables have their types; the permits' bounds follow from PermitsInv.
Typed ==
    /\ counter \in [Kinds -> Nat]
    /\ permits \in [Servers -> Int]
    /\ query_permits \in Int
    /\ DOMAIN sessions \subseteq Nat
    /\ \A i \in DOMAIN sessions : sessions[i] \in SessionState
    /\ tracked \subseteq Nat
    /\ phase \in [Clients -> Phases]
    /\ id \in [Clients -> Nat]
    /\ mine \in [Clients -> SessionState]

\* A web request is either waiting for its statement, in it, or over.
KindInv ==
    \A c \in Clients :
        /\ phase[c] \in {"accepted", "auth", "closing", "dropping", "panicked"} => Kind[c] \in Servers
        /\ phase[c] = "panicked" => Kind[c] = "pg"

\* The numbers: those given out are below the counter, a live connection has
\* one, and no two connections of a server have the same.
First(k) == IF k = "web" THEN WebOffset ELSE 1
NumberInv ==
    /\ \A k \in Kinds : counter[k] >= First(k)
    /\ \A c \in Clients :
          /\ phase[c] = "new" => id[c] = 0
          /\ phase[c] \in Live => id[c] # 0
          /\ id[c] # 0 => First(Kind[c]) <= id[c] /\ id[c] < counter[Kind[c]]
    /\ \A c, d \in Clients : id[c] # 0 /\ id[c] = id[d] /\ Kind[c] = Kind[d] => c = d

\* A server's counter is bounded by the clients: it does not reach the numbers
\* of the web.
Waiting == {c \in Clients : phase[c] = "new"}
CounterInv == \A s \in Servers : counter[s] + Cardinality(Waiting) <= 1 + Cardinality(Clients)

Held(s) == {c \in Open : Kind[c] = s}
Querying == {c \in Clients : phase[c] = "query"}
PermitsInv ==
    /\ \A s \in Servers : permits[s] + Cardinality(Held(s)) = MaxConnections
    /\ \A s \in Servers : permits[s] >= 0
    /\ query_permits + Cardinality(Querying) = MaxQueries
    /\ query_permits >= 0

\* Who answers for an entry under a number; a PostgreSQL connection that is
\* being dropped has given it up.
Answers(c) == c \in Open \/ phase[c] = "panicked" \/ Kind[c] = "web"
GaveUp(c) == Kind[c] = "pg" /\ phase[c] = "dropping"
OwnerInv ==
    \A i \in DOMAIN sessions \cup tracked :
        i # 0 /\ \E c \in Clients : id[c] = i /\ Answers(c) /\ ~ GaveUp(c)

\* As long as its number is its own, a connection finds what it selected; when
\* it was just accepted there is nothing under its number.
Unshared(c) == \A s \in Servers \ {Kind[c]} : counter[s] <= id[c]
DatabaseInv ==
    \A c \in Clients :
        /\ phase[c] \in {"new", "accepted"} => mine[c] = InformationSchema
        /\ phase[c] = "accepted" /\ Unshared(c) => id[c] \notin DOMAIN sessions
        /\ phase[c] \in {"auth", "command", "query"} /\ Unshared(c) => get_session(id[c]) = mine[c]

IInv == Typed /\ KindInv /\ NumberInv /\ CounterInv /\ PermitsInv /\ OwnerInv /\ DatabaseInv
-----------------------------------------------------------------------------
USE NamesAssumption, ClientsAssumption, BoundsAssumption
USE DEF Servers, Kinds, Live, Phases

\* The sets that are counted are finite.
LEMMA Finite ==
  /\ IsFiniteSet(Waiting) /\ Cardinality(Waiting) \in Nat
  /\ \A s \in Servers : IsFiniteSet(Held(s)) /\ Cardinality(Held(s)) \in Nat
  /\ IsFiniteSet(Querying) /\ Cardinality(Querying) \in Nat
  /\ Cardinality(Clients) \in Nat
<1>1. Waiting \in SUBSET Clients /\ Querying \in SUBSET Clients /\ \A s \in Servers : Held(s) \in SUBSET Clients
  BY DEF Waiting, Querying, Held, Open
<1>2. \A T \in SUBSET Clients : IsFiniteSet(T) /\ Cardinality(T) \in Nat
  BY FS_Subset, FS_CardinalityType
<1> QED BY <1>1, <1>2

\* The initial states satisfy the invariant.
LEMMA InitInv == Init => IInv
<1> SUFFICES ASSUME Init PROVE IInv
  OBVIOUS
<1>1. Typed
  BY DEF Init, Typed, SessionState, InformationSchema
<1>2. KindInv
  BY DEF Init, KindInv
<1>3. NumberInv
  BY DEF Init, NumberInv, First
<1>4. CounterInv
  <2>1. Waiting = Clients
    BY DEF Init, Waiting
  <2> QED BY <2>1, Finite DEF Init, CounterInv
<1>5. PermitsInv
  <2>1. Querying = {} /\ \A s \in Servers : Held(s) = {}
    BY DEF Init, Querying, Held, Open
  <2>2. Cardinality({}) = 0
    BY FS_EmptySet
  <2>3. Cardinality(Querying) = 0 /\ \A s \in Servers : Cardinality(Held(s)) = 0
    BY <2>1, <2>2
  <2> QED BY <2>3 DEF Init, PermitsInv
<1>6. OwnerInv
  BY DEF Init, OwnerInv
<1>7. DatabaseInv
  BY DEF Init, DatabaseInv, get_session, InformationSchema
<1> QED BY <1>1, <1>2, <1>3, <1>4, <1>5, <1>6, <1>7 DEF IInv

\* What a move of one connection does to the three counts.
OpenPhases == {"accepted", "auth", "command", "query", "closing", "dropping"}
One(b) == IF b THEN 1 ELSE 0
LEMMA Counts ==
  ASSUME phase \in [Clients -> Phases], NEW c \in Clients, NEW p \in Phases,
         phase' = [phase EXCEPT ![c] = p]
  PROVE  /\ Cardinality(Waiting)' = Cardinality(Waiting) - One(phase[c] = "new") + One(p = "new")
         /\ Cardinality(Querying)' = Cardinality(Querying) - One(phase[c] = "query") + One(p = "query")
         /\ \A s \in Servers :
               Cardinality(Held(s))' = Cardinality(Held(s))
                   - One(Kind[c] = s /\ phase[c] \in OpenPhases) + One(Kind[c] = s /\ p \in OpenPhases)
<1>1. ASSUME NEW S, IsFiniteSet(S), NEW T, NEW b \in BOOLEAN,
             T = IF b THEN S \cup {c} ELSE S \ {c}
      PROVE  Cardinality(T) = Cardinality(S) - One(c \in S) + One(b)
  <2>1. Cardinality(S) \in Nat
    BY <1>1, FS_CardinalityType
  <2>2. Cardinality(S \cup {c}) = IF c \in S THEN Cardinality(S) ELSE Cardinality(S) + 1
    BY <1>1, FS_AddElement
  <2>3. Cardinality(S \ {c}) = IF c \in S THEN Cardinality(S) - 1 ELSE Cardinality(S)
    BY <1>1, FS_RemoveElement
  <2> QED BY <1>1, <2>1, <2>2, <2>3 DEF One
<1>2. Cardinality(Waiting') = Cardinality(Waiting) - One(c \in Waiting) + One(p = "new")
  <2>1. Waiting' = IF p = "new" THEN Waiting \cup {c} ELSE Waiting \ {c}
    BY DEF Waiting
  <2> QED BY <1>1, <2>1, Finite
<1>3. Cardinality(Querying') = Cardinality(Querying) - One(c \in Querying) + One(p = "query")
  <2>1. Querying' = IF p = "query" THEN Querying \cup {c} ELSE Querying \ {c}
    BY DEF Querying
  <2> QED BY <1>1, <2>1, Finite
<1>4. ASSUME NEW s \in Servers
      PROVE  Cardinality(Held(s)') = Cardinality(Held(s)) - One(c \in Held(s)) + One(Kind[c] = s /\ p \in OpenPhases)
  <2>1. Held(s)' = IF Kind[c] = s /\ p \in OpenPhases THEN Held(s) \cup {c} ELSE Held(s) \ {c}
    BY DEF Held, Open, OpenPhases
  <2>2. IsFiniteSet(Held(s))
    BY Finite
  <2> QED BY <1>1, <2>1, <2>2
<1>5. /\ c \in Waiting <=> phase[c] = "new"
      /\ c \in Querying <=> phase[c] = "query"
      /\ \A s \in Servers : c \in Held(s) <=> Kind[c] = s /\ phase[c] \in OpenPhases
  BY DEF Waiting, Querying, Held, Open, OpenPhases
<1> QED BY <1>2, <1>3, <1>4, <1>5 DEF One

\* A step that moves no connection leaves the counts alone.
LEMMA CountsStay ==
  ASSUME phase' = phase
  PROVE  Waiting' = Waiting /\ Querying' = Querying /\ \A s \in Servers : Held(s)' = Held(s)
BY DEF Waiting, Querying, Held, Open

\* A number belongs to one connection when the other server has not reached it:
\* numbers of a server are given out once, and none of them is a web number.
LEMMA Apart ==
  ASSUME IInv, NEW c \in Clients, NEW d \in Clients,
         id[c] # 0, id[d] = id[c], \A s \in Servers \ {Kind[c]} : counter[s] <= id[c]
  PROVE  c = d
<1>1. \A s \in Servers : counter[s] <= WebOffset
  BY Finite DEF IInv, CounterInv, Typed
<1>2. /\ First(Kind[c]) <= id[c] /\ id[c] < counter[Kind[c]]
      /\ First(Kind[d]) <= id[d] /\ id[d] < counter[Kind[d]]
  BY DEF IInv, NumberInv
<1>3. Kind[c] = Kind[d]
  BY <1>1, <1>2 DEF First, IInv, Typed
<1> QED BY <1>3 DEF IInv, NumberInv

\* A number that is just given out has no session and no entry in the tracker
\* left from an earlier connection of its kind.
LEMMA Fresh ==
  ASSUME IInv, NEW c \in Clients, phase[c] = "new",
         \A s \in Servers \ {Kind[c]} : counter[s] <= counter[Kind[c]]
  PROVE  counter[Kind[c]] \notin DOMAIN sessions
<1> SUFFICES ASSUME counter[Kind[c]] \in DOMAIN sessions PROVE FALSE
  OBVIOUS
<1>1. PICK d \in Clients : id[d] = counter[Kind[c]]
  BY DEF IInv, OwnerInv
<1>2. id[d] # 0
  BY <1>1 DEF IInv, OwnerInv
<1>3. First(Kind[d]) <= id[d] /\ id[d] < counter[Kind[d]]
  BY <1>2 DEF IInv, NumberInv
<1>4. \A s \in Servers : counter[s] < WebOffset
  <2>1. Cardinality(Waiting) # 0
    BY Finite, FS_EmptySet DEF Waiting
  <2> QED BY <2>1, Finite DEF IInv, CounterInv, Typed
<1>5. counter \in [Kinds -> Nat] /\ Kind[c] \in Kinds /\ Kind[d] \in Kinds /\ counter["web"] >= WebOffset
  BY DEF IInv, Typed, NumberInv, First
<1>6. Kind[d] # Kind[c]
  BY <1>1, <1>3, <1>5
<1>7. Kind[d] = "web"
  BY <1>1, <1>3, <1>5, <1>6
<1> QED BY <1>1, <1>3, <1>4, <1>5, <1>6, <1>7 DEF First

-----------------------------------------------------------------------------
(* One lemma for each part of the invariant.                               *)

\* A step of one connection.
Step(c) ==
    \/ Accept(c) \/ MysqlHandshake(c) \/ AuthOk(c)
    \/ \E db \in Names \cup {NoDatabase} : PgStartup(c, db)
    \/ Leave(c) \/ Disconnect(c) \/ Drop(c) \/ Panic(c)
    \/ WebRequest(c) \/ Transaction(c)
    \/ \E db \in Names : Use(c, db) \/ InitDb(c, db)
    \/ Select(c) \/ SelectDone(c)

\* What a session may hold.
LEMMA States ==
  /\ InformationSchema \in SessionState
  /\ \A db \in Names \cup {NoDatabase} : db \in SessionState
  /\ \A db \in Names : Lower[db] \in SessionState
  /\ Databases \subseteq Names
BY DEF SessionState, Names

\* The types survive every step.
LEMMA TypedStep == ASSUME IInv, NEW c \in Clients, Step(c) PROVE Typed'
<1>1. CASE Accept(c)
  BY <1>1, States DEF Accept, IInv, Typed, get_session
<1>2. CASE MysqlHandshake(c)
  <2>1. Typed
    BY DEF IInv
  <2>2. tracked' \subseteq Nat
    <3>1. tracked \subseteq Nat /\ id[c] \in Nat
      BY <2>1 DEF Typed
    <3> QED BY <1>2, <3>1 DEF MysqlHandshake, on_connect
  <2> QED BY <1>2, <2>1, <2>2 DEF MysqlHandshake, Typed
<1>3. ASSUME NEW db \in Names \cup {NoDatabase}, PgStartup(c, db) PROVE Typed'
  <2>1. db \in SessionState
    BY States
  <2>2. /\ sessions' = [j \in DOMAIN sessions \cup {id[c]} |-> IF j = id[c] THEN db ELSE sessions[j]]
        /\ mine' = [mine EXCEPT ![c] = db]
        /\ tracked' = tracked \cup {id[c]}
        /\ phase' = [phase EXCEPT ![c] = "auth"]
        /\ UNCHANGED <<counter, permits, query_permits, id>>
    BY <1>3 DEF PgStartup, set_current_database, with_session_mut, on_connect
  <2>3. Typed
    BY DEF IInv
  <2>4. DOMAIN sessions' \subseteq Nat /\ \A i \in DOMAIN sessions' : sessions'[i] \in SessionState
    BY <2>1, <2>2, <2>3 DEF Typed
  <2>5. tracked' \subseteq Nat
    <3>1. tracked \subseteq Nat /\ id[c] \in Nat
      BY <2>3 DEF Typed
    <3> QED BY <2>2, <3>1
  <2> QED BY <2>1, <2>2, <2>3, <2>4, <2>5 DEF Typed
<1>4. CASE AuthOk(c)
  BY <1>4, States DEF AuthOk, set_current_database, with_session_mut, IInv, Typed, get_session
<1>5. CASE Leave(c)
  BY <1>5, States DEF Leave, IInv, Typed, get_session
<1>6. CASE Disconnect(c)
  BY <1>6, States DEF Disconnect, on_disconnect, IInv, Typed, get_session
<1>7. CASE Drop(c)
  BY <1>7, States DEF Drop, on_disconnect, Forget, IInv, Typed, KindInv
<1>8. CASE Panic(c)
  BY <1>8, States DEF Panic, IInv, Typed, get_session
<1>9. CASE WebRequest(c)
  BY <1>9, States
  DEF WebRequest, set_current_database, with_session_mut, IInv, Typed, get_session
<1>10. CASE Transaction(c)
  BY <1>10, States DEF Transaction, with_session_mut, get_session, Answered, IInv, Typed
<1>11. ASSUME NEW db \in Names, Use(c, db) PROVE Typed'
  BY <1>11, States
  DEF Use, set_current_database, with_session_mut, Answered, IInv, Typed, get_session
<1>12. ASSUME NEW db \in Names, InitDb(c, db) PROVE Typed'
  BY <1>12, States DEF InitDb, set_current_database, with_session_mut, IInv, Typed, get_session
<1>13. CASE Select(c)
  BY <1>13, States DEF Select, Answered, IInv, Typed, get_session
<1>14. CASE SelectDone(c)
  BY <1>14, States DEF SelectDone, Answered, IInv, Typed, get_session
<1> QED BY <1>1, <1>2, <1>3, <1>4, <1>5, <1>6, <1>7, <1>8, <1>9, <1>10, <1>11, <1>12, <1>13, <1>14
    DEF Step

\* What a kind of connection can go through.
LEMMA KindStep == ASSUME IInv, NEW c \in Clients, Step(c) PROVE KindInv'
<1>1. CASE Accept(c)
  BY <1>1 DEF Accept, IInv, Typed, KindInv
<1>2. CASE MysqlHandshake(c)
  BY <1>2 DEF MysqlHandshake, on_connect, IInv, Typed, KindInv
<1>3. ASSUME NEW db \in Names \cup {NoDatabase}, PgStartup(c, db) PROVE KindInv'
  BY <1>3
  DEF PgStartup, set_current_database, with_session_mut, on_connect, IInv, Typed, KindInv
<1>4. CASE AuthOk(c)
  BY <1>4 DEF AuthOk, set_current_database, with_session_mut, IInv, Typed, KindInv
<1>5. CASE Leave(c)
  BY <1>5 DEF Leave, IInv, Typed, KindInv
<1>6. CASE Disconnect(c)
  BY <1>6 DEF Disconnect, on_disconnect, IInv, Typed, KindInv
<1>7. CASE Drop(c)
  BY <1>7 DEF Drop, on_disconnect, Forget, IInv, Typed, KindInv
<1>8. CASE Panic(c)
  BY <1>8 DEF Panic, IInv, Typed, KindInv
<1>9. CASE WebRequest(c)
  BY <1>9 DEF WebRequest, set_current_database, with_session_mut, IInv, Typed, KindInv
<1>10. CASE Transaction(c)
  BY <1>10 DEF Transaction, with_session_mut, get_session, Answered, IInv, Typed, KindInv
<1>11. ASSUME NEW db \in Names, Use(c, db) PROVE KindInv'
  BY <1>11 DEF Use, set_current_database, with_session_mut, Answered, IInv, Typed, KindInv
<1>12. ASSUME NEW db \in Names, InitDb(c, db) PROVE KindInv'
  BY <1>12 DEF InitDb, set_current_database, with_session_mut, IInv, Typed, KindInv
<1>13. CASE Select(c)
  BY <1>13 DEF Select, Answered, IInv, Typed, KindInv
<1>14. CASE SelectDone(c)
  BY <1>14 DEF SelectDone, Answered, IInv, Typed, KindInv
<1> QED BY <1>1, <1>2, <1>3, <1>4, <1>5, <1>6, <1>7, <1>8, <1>9, <1>10, <1>11, <1>12, <1>13, <1>14
    DEF Step

\* A number is given out once, and kept until the task ends.
LEMMA NumberStep == ASSUME IInv, NEW c \in Clients, Step(c) PROVE NumberInv'
<1>1. CASE Accept(c)
  BY <1>1 DEF Accept, IInv, Typed, NumberInv, First, KindInv
<1>2. CASE MysqlHandshake(c)
  BY <1>2 DEF MysqlHandshake, on_connect, IInv, Typed, NumberInv, First, KindInv
<1>3. ASSUME NEW db \in Names \cup {NoDatabase}, PgStartup(c, db) PROVE NumberInv'
  BY <1>3
  DEF PgStartup, set_current_database, with_session_mut, on_connect, IInv, Typed, NumberInv, First, KindInv
<1>4. CASE AuthOk(c)
  BY <1>4
  DEF AuthOk, set_current_database, with_session_mut, IInv, Typed, NumberInv, First, KindInv
<1>5. CASE Leave(c)
  BY <1>5 DEF Leave, IInv, Typed, NumberInv, First, KindInv
<1>6. CASE Disconnect(c)
  BY <1>6 DEF Disconnect, on_disconnect, IInv, Typed, NumberInv, First, KindInv
<1>7. CASE Drop(c)
  BY <1>7 DEF Drop, on_disconnect, Forget, IInv, Typed, NumberInv, First, KindInv
<1>8. CASE Panic(c)
  BY <1>8 DEF Panic, IInv, Typed, NumberInv, First, KindInv
<1>9. CASE WebRequest(c)
  <2>1. /\ Kind[c] = "web" /\ id' = [id EXCEPT ![c] = counter["web"]]
        /\ counter' = [counter EXCEPT !["web"] = @ + 1] /\ phase' = [phase EXCEPT ![c] = "command"]
    BY <1>9 DEF WebRequest
  <2>2. counter["web"] >= WebOffset /\ \A d \in Clients : Kind[d] = "web" => id[d] < counter["web"]
    BY Finite DEF IInv, Typed, NumberInv, First
  <2>3. \A d, e \in Clients : id'[d] # 0 /\ id'[d] = id'[e] /\ Kind[d] = Kind[e] => d = e
    BY <2>1, <2>2 DEF IInv, Typed, NumberInv
  <2>4. /\ \A k \in Kinds : counter'[k] >= First(k)
        /\ counter'["web"] = counter["web"] + 1 /\ \A s \in Servers : counter'[s] = counter[s]
    BY <2>1, <2>2 DEF IInv, Typed, NumberInv, First
  <2>5. ASSUME NEW d \in Clients
        PROVE  /\ phase'[d] = "new" => id'[d] = 0
               /\ phase'[d] \in Live => id'[d] # 0
               /\ id'[d] # 0 => First(Kind[d]) <= id'[d] /\ id'[d] < counter'[Kind[d]]
    BY <2>1, <2>2, <2>4 DEF IInv, Typed, NumberInv, First
  <2> QED BY <2>3, <2>4, <2>5 DEF NumberInv, First
<1>10. CASE Transaction(c)
  BY <1>10
  DEF Transaction, with_session_mut, get_session, Answered, IInv, Typed, NumberInv, First, KindInv
<1>11. ASSUME NEW db \in Names, Use(c, db) PROVE NumberInv'
  BY <1>11
  DEF Use, set_current_database, with_session_mut, Answered, IInv, Typed, NumberInv, First, KindInv
<1>12. ASSUME NEW db \in Names, InitDb(c, db) PROVE NumberInv'
  BY <1>12
  DEF InitDb, set_current_database, with_session_mut, IInv, Typed, NumberInv, First, KindInv
<1>13. CASE Select(c)
  BY <1>13 DEF Select, Answered, IInv, Typed, NumberInv, First, KindInv
<1>14. CASE SelectDone(c)
  BY <1>14 DEF SelectDone, Answered, IInv, Typed, NumberInv, First, KindInv
<1> QED BY <1>1, <1>2, <1>3, <1>4, <1>5, <1>6, <1>7, <1>8, <1>9, <1>10, <1>11, <1>12, <1>13, <1>14
    DEF Step

\* The books: the connection moves to p; a server's counter moves when a
\* connection leaves "new", its permits and the query permits when it starts or
\* stops holding one.
Books(c, p) ==
    /\ p # "new"
    /\ phase' = [phase EXCEPT ![c] = p]
    /\ \A s \in Servers : counter'[s] = counter[s] + One(Kind[c] = s /\ phase[c] = "new")
    /\ \A s \in Servers :
          /\ permits'[s] = permits[s] + One(Kind[c] = s /\ phase[c] \in OpenPhases)
                                    - One(Kind[c] = s /\ p \in OpenPhases)
          /\ permits'[s] >= 0
    /\ query_permits' = query_permits + One(phase[c] = "query") - One(p = "query")
    /\ query_permits' >= 0

\* Every action keeps these books.
LEMMA BooksStep == ASSUME IInv, NEW c \in Clients, Step(c) PROVE \E p \in Phases : Books(c, p)
<1> USE DEF IInv, Typed, KindInv, PermitsInv, Books, One, OpenPhases
<1>1. CASE Accept(c)
  <2>1. Books(c, IF permits[Kind[c]] = 0 THEN "closed" ELSE "accepted")
    BY <1>1 DEF Accept
  <2>2. (IF permits[Kind[c]] = 0 THEN "closed" ELSE "accepted") \in Phases
    BY DEF IInv, Typed
  <2> HIDE DEF Books
  <2> QED BY <2>1, <2>2, Zenon
<1>2. CASE MysqlHandshake(c)
  <2>1. Books(c, "auth")
    BY <1>2 DEF MysqlHandshake
  <2> QED BY <2>1
<1>3. ASSUME NEW db \in Names \cup {NoDatabase}, PgStartup(c, db) PROVE \E p \in Phases : Books(c, p)
  <2>1. Books(c, "auth")
    BY <1>3 DEF PgStartup
  <2> QED BY <2>1
<1>4. CASE AuthOk(c)
  <2>1. Books(c, "command")
    BY <1>4 DEF AuthOk
  <2> QED BY <2>1
<1>5. CASE Leave(c)
  <2>1. Books(c, "closing")
    BY <1>5 DEF Leave
  <2> QED BY <2>1
<1>6. CASE Disconnect(c)
  <2>1. Books(c, "dropping")
    BY <1>6 DEF Disconnect
  <2> QED BY <2>1
<1>7. CASE Drop(c)
  <2>1. Books(c, "closed")
    BY <1>7 DEF Drop, Forget
  <2> QED BY <2>1
<1>8. CASE Panic(c)
  <2>1. Books(c, IF Kind[c] = "mysql" THEN "dropping" ELSE "panicked")
    BY <1>8 DEF Panic
  <2> QED BY <2>1
<1>9. CASE WebRequest(c)
  <2>1. Books(c, "command")
    BY <1>9 DEF WebRequest
  <2> QED BY <2>1
<1>10. CASE Transaction(c)
  <2>1. Books(c, IF Kind[c] = "web" THEN "closed" ELSE "command")
    BY <1>10 DEF Transaction, Answered
  <2> QED BY <2>1
<1>11. ASSUME NEW db \in Names, Use(c, db) PROVE \E p \in Phases : Books(c, p)
  <2>1. Books(c, IF Kind[c] = "web" THEN "closed" ELSE "command")
    BY <1>11 DEF Use, Answered
  <2> QED BY <2>1
<1>12. ASSUME NEW db \in Names, InitDb(c, db) PROVE \E p \in Phases : Books(c, p)
  <2>1. Books(c, phase[c])
    BY <1>12 DEF InitDb
  <2>2. (phase[c]) \in Phases
    BY DEF IInv, Typed
  <2> HIDE DEF Books
  <2> QED BY <2>1, <2>2, Zenon
<1>13. CASE Select(c)
  <2>1. Books(c, IF query_permits > 0 THEN "query" ELSE IF Kind[c] = "web" THEN "closed" ELSE "command")
    BY <1>13 DEF Select, Answered
  <2> QED BY <2>1
<1>14. CASE SelectDone(c)
  <2>1. Books(c, IF Kind[c] = "web" THEN "closed" ELSE "command")
    BY <1>14 DEF SelectDone, Answered
  <2> QED BY <2>1
<1> HIDE DEF IInv, Typed, KindInv, PermitsInv, Books, One, OpenPhases, Servers, Kinds, Live
<1> QED BY <1>1, <1>2, <1>3, <1>4, <1>5, <1>6, <1>7, <1>8, <1>9, <1>10, <1>11, <1>12, <1>13, <1>14
    DEF Step

\* A number is spent for a connection that was waiting, so the counters stay
\* below the web numbers.
LEMMA CounterStep == ASSUME IInv, NEW c \in Clients, Step(c) PROVE CounterInv'
<1>1. PICK p \in Phases : Books(c, p)
  BY BooksStep
<1>2. Cardinality(Waiting)' = Cardinality(Waiting) - One(phase[c] = "new")
  <2>1. phase \in [Clients -> Phases] /\ phase' = [phase EXCEPT ![c] = p] /\ p # "new"
    BY <1>1 DEF Books, IInv, Typed
  <2>2. Cardinality(Waiting)' = Cardinality(Waiting) - One(phase[c] = "new") + One(p = "new")
    BY <2>1, Counts DEF One
  <2> QED BY <2>1, <2>2, Finite DEF One
<1>3. \A s \in Servers : counter'[s] <= counter[s] + One(phase[c] = "new")
  BY <1>1 DEF Books, One, IInv, Typed
<1>4. counter' \in [Kinds -> Nat]
  BY TypedStep DEF Typed
<1> QED BY <1>2, <1>3, <1>4, Finite DEF IInv, CounterInv, Typed, One

\* Permits and holders move together.
LEMMA PermitsStep == ASSUME IInv, NEW c \in Clients, Step(c) PROVE PermitsInv'
<1>1. PICK p \in Phases : Books(c, p)
  BY BooksStep
<1>2. phase \in [Clients -> Phases] /\ phase' = [phase EXCEPT ![c] = p]
  BY <1>1 DEF Books, IInv, Typed
<1>3. query_permits' + Cardinality(Querying)' = MaxQueries
  <2>1. Cardinality(Querying)' = Cardinality(Querying) - One(phase[c] = "query") + One(p = "query")
    BY <1>2, Counts DEF One
  <2>2. query_permits' = query_permits + One(phase[c] = "query") - One(p = "query")
    BY <1>1 DEF Books
  <2> QED BY <2>1, <2>2, Finite DEF IInv, Typed, PermitsInv, One
<1>4. ASSUME NEW s \in Servers PROVE permits'[s] + Cardinality(Held(s))' = MaxConnections
  <2>1. Cardinality(Held(s))' = Cardinality(Held(s))
            - One(Kind[c] = s /\ phase[c] \in OpenPhases) + One(Kind[c] = s /\ p \in OpenPhases)
    BY <1>2, Counts DEF One
  <2>2. permits'[s] = permits[s] + One(Kind[c] = s /\ phase[c] \in OpenPhases)
                                 - One(Kind[c] = s /\ p \in OpenPhases)
    BY <1>1 DEF Books
  <2> QED BY <2>1, <2>2, Finite DEF IInv, Typed, PermitsInv, One
<1> QED BY <1>1, <1>3, <1>4 DEF Books, PermitsInv

\* What a step of c does to the entries of the handler's maps: it leaves its own
\* entry and answers for it, it removes its entry, or it changes no entry and
\* answered for none.
Entries == DOMAIN sessions \cup tracked
Owner(c) == Answers(c) /\ ~ GaveUp(c)
Keeps(c) ==
    /\ \A d \in Clients \ {c} : id'[d] = id[d] /\ phase'[d] = phase[d]
    /\ \/ /\ id'[c] # 0 /\ (id[c] # 0 => id'[c] = id[c])
          /\ Owner(c)'
          /\ Entries' \subseteq Entries \cup {id'[c]}
       \/ Entries' \subseteq Entries \ {id[c]}
       \/ Entries' = Entries /\ ~ Owner(c)

\* Every action is of one of the three forms.
LEMMA KeepsStep == ASSUME IInv, NEW c \in Clients, Step(c) PROVE Keeps(c)
<1> USE DEF IInv, Typed, KindInv, NumberInv, Keeps, Owner, Answers, GaveUp, Open, Entries
<1>1. CASE Accept(c)
  BY <1>1 DEF Accept
<1>2. CASE MysqlHandshake(c)
  BY <1>2 DEF MysqlHandshake, on_connect
<1>3. ASSUME NEW db \in Names \cup {NoDatabase}, PgStartup(c, db) PROVE Keeps(c)
  BY <1>3 DEF PgStartup, set_current_database, with_session_mut, on_connect
<1>4. CASE AuthOk(c)
  BY <1>4 DEF AuthOk, set_current_database, with_session_mut
<1>5. CASE Leave(c)
  BY <1>5 DEF Leave
<1>6. CASE Disconnect(c)
  BY <1>6 DEF Disconnect, on_disconnect
<1>7. CASE Drop(c)
  BY <1>7 DEF Drop, on_disconnect, Forget
<1>8. CASE Panic(c)
  BY <1>8 DEF Panic
<1>9. CASE WebRequest(c)
  <2>1. counter["web"] # 0
    BY Finite DEF First
  <2> QED BY <1>9, <2>1 DEF WebRequest, set_current_database, with_session_mut
<1>10. CASE Transaction(c)
  BY <1>10 DEF Transaction, with_session_mut, get_session, Answered
<1>11. ASSUME NEW db \in Names, Use(c, db) PROVE Keeps(c)
  BY <1>11 DEF Use, set_current_database, with_session_mut, Answered
<1>12. ASSUME NEW db \in Names, InitDb(c, db) PROVE Keeps(c)
  BY <1>12 DEF InitDb, set_current_database, with_session_mut
<1>13. CASE Select(c)
  BY <1>13 DEF Select, Answered
<1>14. CASE SelectDone(c)
  BY <1>14 DEF SelectDone, Answered
<1> QED BY <1>1, <1>2, <1>3, <1>4, <1>5, <1>6, <1>7, <1>8, <1>9, <1>10, <1>11, <1>12, <1>13, <1>14
    DEF Step

\* An entry always has an owner: the one who removes it is the only one who
\* needs it or leaves another owner of the same number.
LEMMA OwnerStep == ASSUME IInv, NEW c \in Clients, Step(c) PROVE OwnerInv'
<1>1. Keeps(c)
  BY KeepsStep
<1>2. \A d \in Clients \ {c} : Owner(d)' <=> Owner(d)
  BY <1>1 DEF Keeps, Owner, Answers, GaveUp, Open
<1>3. ASSUME NEW i \in Entries' PROVE i # 0 /\ \E d \in Clients : id'[d] = i /\ Owner(d)'
  <2>1. CASE i = id'[c] /\ i # 0 /\ Owner(c)'
    BY <2>1
  <2>2. CASE i \in Entries /\ ~ (i = id'[c] /\ i # 0 /\ Owner(c)')
    <3>1. i # 0
      BY <2>2 DEF IInv, OwnerInv, Entries
    <3>2. PICK d \in Clients : id[d] = i /\ Owner(d)
      BY <2>2 DEF IInv, OwnerInv, Owner, Entries
    <3>3. d # c
      BY <1>1, <1>3, <2>2, <3>1, <3>2 DEF Keeps
    <3> QED BY <1>1, <1>2, <3>1, <3>2, <3>3 DEF Keeps
  <2> QED BY <1>1, <1>3, <2>1, <2>2 DEF Keeps
<1> QED BY <1>3 DEF OwnerInv, Owner, Entries

\* A step of c changes the session of its own number, and nothing of another
\* connection.
Touches(c) ==
    /\ \A d \in Clients \ {c} : id'[d] = id[d] /\ phase'[d] = phase[d] /\ mine'[d] = mine[d]
    /\ \A k \in Kinds : counter[k] <= counter'[k]
    /\ \A j \in Nat : j # id[c] /\ ~ (Kind[c] = "web" /\ j = counter["web"]) =>
          /\ j \in DOMAIN sessions' <=> j \in DOMAIN sessions
          /\ j \in DOMAIN sessions => sessions'[j] = sessions[j]

\* Every action of c stays within its own number.
LEMMA TouchesStep == ASSUME IInv, NEW c \in Clients, Step(c) PROVE Touches(c)
<1> USE DEF IInv, Typed, Touches
<1>1. CASE Accept(c)
  BY <1>1 DEF Accept
<1>2. CASE MysqlHandshake(c)
  BY <1>2 DEF MysqlHandshake, on_connect
<1>3. ASSUME NEW db \in Names \cup {NoDatabase}, PgStartup(c, db) PROVE Touches(c)
  BY <1>3 DEF PgStartup, set_current_database, with_session_mut, on_connect
<1>4. CASE AuthOk(c)
  BY <1>4 DEF AuthOk, set_current_database, with_session_mut
<1>5. CASE Leave(c)
  BY <1>5 DEF Leave
<1>6. CASE Disconnect(c)
  BY <1>6 DEF Disconnect, on_disconnect
<1>7. CASE Drop(c)
  BY <1>7 DEF Drop, on_disconnect, Forget
<1>8. CASE Panic(c)
  BY <1>8 DEF Panic
<1>9. CASE WebRequest(c)
  BY <1>9 DEF WebRequest, set_current_database, with_session_mut
<1>10. CASE Transaction(c)
  BY <1>10 DEF Transaction, with_session_mut, get_session, Answered
<1>11. ASSUME NEW db \in Names, Use(c, db) PROVE Touches(c)
  BY <1>11 DEF Use, set_current_database, with_session_mut, Answered
<1>12. ASSUME NEW db \in Names, InitDb(c, db) PROVE Touches(c)
  BY <1>12 DEF InitDb, set_current_database, with_session_mut
<1>13. CASE Select(c)
  BY <1>13 DEF Select, Answered
<1>14. CASE SelectDone(c)
  BY <1>14 DEF SelectDone, Answered
<1> QED BY <1>1, <1>2, <1>3, <1>4, <1>5, <1>6, <1>7, <1>8, <1>9, <1>10, <1>11, <1>12, <1>13, <1>14
    DEF Step

\* What DatabaseInv says of one connection.
Database(c) ==
    /\ phase[c] \in {"new", "accepted"} => mine[c] = InformationSchema
    /\ phase[c] = "accepted" /\ Unshared(c) => id[c] \notin DOMAIN sessions
    /\ phase[c] \in {"auth", "command", "query"} /\ Unshared(c) => get_session(id[c]) = mine[c]

\* A step of c does not move the database of a connection whose number is its
\* own.
LEMMA OthersDatabase ==
  ASSUME IInv, NEW c \in Clients, Step(c), NEW d \in Clients, d # c
  PROVE  Database(d)'
<1>1. Touches(c)
  BY TouchesStep
<1>2. id'[d] = id[d] /\ phase'[d] = phase[d] /\ mine'[d] = mine[d]
  BY <1>1 DEF Touches
<1>3. Database(d)
  BY DEF IInv, DatabaseInv, Database
<1>4. CASE phase[d] \in {"accepted", "auth", "command", "query"} /\ Unshared(d)'
  <2>1. Unshared(d)
    <3>1. counter \in [Kinds -> Nat] /\ counter' \in [Kinds -> Nat] /\ id \in [Clients -> Nat]
      BY TypedStep DEF IInv, Typed
    <3>2. \A k \in Kinds : counter[k] <= counter'[k]
      BY <1>1 DEF Touches
    <3> QED BY <1>2, <1>4, <3>1, <3>2 DEF Unshared
  <2>2. id[d] # 0 /\ id[d] \in Nat
    BY <1>4 DEF IInv, NumberInv, Typed
  <2>3. id[d] # id[c]
    BY <2>1, <2>2, Apart DEF Unshared
  <2>4. ~ (Kind[c] = "web" /\ id[d] = counter["web"])
    <3>1. id[d] < counter[Kind[d]] /\ counter["web"] >= WebOffset
      BY <2>2 DEF IInv, NumberInv, First
    <3>2. \A s \in Servers : counter[s] <= WebOffset
      BY Finite DEF IInv, CounterInv, Typed
    <3>3. counter \in [Kinds -> Nat] /\ Kind[d] \in Kinds
      BY DEF IInv, Typed
    <3> QED BY <2>2, <3>1, <3>2, <3>3
  <2>5. /\ id[d] \in DOMAIN sessions' <=> id[d] \in DOMAIN sessions
        /\ id[d] \in DOMAIN sessions => sessions'[id[d]] = sessions[id[d]]
    BY <1>1, <2>2, <2>3, <2>4 DEF Touches
  <2> QED BY <1>2, <1>3, <2>1, <2>5 DEF Database, get_session
<1> QED BY <1>2, <1>3, <1>4 DEF Database

\* A step of c records what it selects.
LEMMA OwnDatabase == ASSUME IInv, NEW c \in Clients, Step(c) PROVE Database(c)'
<1> USE DEF Typed, KindInv, Database, Unshared, get_session
<1>0. Typed /\ KindInv /\ Database(c)
  BY DEF IInv, DatabaseInv, Database
<1>1. CASE Accept(c)
  <2>1. phase'[c] = "accepted" /\ Unshared(c)' => id'[c] \notin DOMAIN sessions'
    <3> SUFFICES ASSUME phase'[c] = "accepted", Unshared(c)' PROVE id'[c] \notin DOMAIN sessions'
      OBVIOUS
    <3>1. id'[c] = counter[Kind[c]] /\ sessions' = sessions /\ counter' = [counter EXCEPT ![Kind[c]] = @ + 1]
      BY <1>1, <1>0 DEF Accept
    <3>2. \A s \in Servers \ {Kind[c]} : counter[s] <= counter[Kind[c]]
      BY <3>1, <1>0 DEF Unshared
    <3> QED BY <1>1, <3>1, <3>2, Fresh DEF Accept
  <2> QED BY <1>1, <1>0, <2>1 DEF Accept
<1>2. CASE MysqlHandshake(c)
  BY <1>2, <1>0 DEF MysqlHandshake, on_connect
<1>3. ASSUME NEW db \in Names \cup {NoDatabase}, PgStartup(c, db) PROVE Database(c)'
  BY <1>3, <1>0 DEF PgStartup, set_current_database, with_session_mut, on_connect
<1>4. CASE AuthOk(c)
  BY <1>4, <1>0 DEF AuthOk, set_current_database, with_session_mut
<1>5. CASE Leave(c)
  BY <1>5, <1>0 DEF Leave
<1>6. CASE Disconnect(c)
  BY <1>6, <1>0 DEF Disconnect, on_disconnect
<1>7. CASE Drop(c)
  BY <1>7, <1>0 DEF Drop, on_disconnect, Forget
<1>8. CASE Panic(c)
  BY <1>8, <1>0 DEF Panic
<1>9. CASE WebRequest(c)
  <2>1. counter["web"] \notin DOMAIN sessions
    <3>1. \A s \in Servers : counter[s] <= counter["web"]
      BY Finite DEF IInv, CounterInv, NumberInv, First
    <3> QED BY <1>9, <3>1, Fresh DEF WebRequest
  <2> QED BY <1>9, <1>0, <2>1 DEF WebRequest, set_current_database, with_session_mut
<1>10. CASE Transaction(c)
  BY <1>10, <1>0 DEF Transaction, with_session_mut, get_session, Answered
<1>11. ASSUME NEW db \in Names, Use(c, db) PROVE Database(c)'
  BY <1>11, <1>0 DEF Use, set_current_database, with_session_mut, Answered
<1>12. ASSUME NEW db \in Names, InitDb(c, db) PROVE Database(c)'
  BY <1>12, <1>0 DEF InitDb, set_current_database, with_session_mut
<1>13. CASE Select(c)
  BY <1>13, <1>0 DEF Select, Answered
<1>14. CASE SelectDone(c)
  BY <1>14, <1>0 DEF SelectDone, Answered
<1> QED BY <1>1, <1>2, <1>3, <1>4, <1>5, <1>6, <1>7, <1>8, <1>9, <1>10, <1>11, <1>12, <1>13, <1>14
    DEF Step

\* Both together.
LEMMA DatabaseStep == ASSUME IInv, NEW c \in Clients, Step(c) PROVE DatabaseInv'
<1>1. \A d \in Clients : Database(d)'
  BY OthersDatabase, OwnDatabase
<1> QED BY <1>1 DEF DatabaseInv, Database

-----------------------------------------------------------------------------
(* The invariant is inductive.                                             *)

\* Every step preserves the invariant.
LEMMA StepInv == IInv /\ [Next]_vars => IInv'
<1>1. ASSUME IInv, Next PROVE IInv'
  <2>1. PICK c \in Clients : Step(c)
    BY <1>1 DEF Next, Step
  <2> QED BY <1>1, <2>1, TypedStep, KindStep, NumberStep, CounterStep, PermitsStep, OwnerStep, DatabaseStep
          DEF IInv
<1>2. ASSUME IInv, UNCHANGED vars PROVE IInv'
  <2>1. Waiting' = Waiting /\ Querying' = Querying /\ \A s \in Servers : Held(s)' = Held(s)
    BY <1>2, CountsStay DEF vars
  <2>2. CounterInv' /\ PermitsInv'
    BY <1>2, <2>1 DEF vars, IInv, CounterInv, PermitsInv
  <2>3. Typed' /\ KindInv' /\ NumberInv'
    BY <1>2 DEF vars, IInv, Typed, KindInv, NumberInv
  <2>4. OwnerInv' /\ DatabaseInv'
    BY <1>2 DEF vars, IInv, OwnerInv, Answers, GaveUp, Open, DatabaseInv, Unshared, get_session
  <2> QED BY <2>2, <2>3, <2>4 DEF IInv
<1> QED BY <1>1, <1>2

\* The invariant holds in every reachable state.
THEOREM Invariant == Spec => []IInv
BY InitInv, StepInv, PTL DEF Spec

\* The variables keep their types; in particular no semaphore goes below zero
\* or above its configured limit (server.rs and the handler's semaphores).
THEOREM TypeCorrect == Spec => []TypeOK
<1>1. IInv => TypeOK
  <2> SUFFICES ASSUME IInv PROVE TypeOK
    OBVIOUS
  <2>1. permits \in [Servers -> 0 .. MaxConnections]
    <3>1. \A s \in Servers : permits[s] \in 0 .. MaxConnections
      BY Finite DEF IInv, PermitsInv, Typed
    <3> QED BY <3>1 DEF IInv, Typed
  <2>2. query_permits \in 0 .. MaxQueries
    BY Finite DEF IInv, PermitsInv, Typed
  <2> QED BY <2>1, <2>2 DEF TypeOK, IInv, Typed
<1> QED BY <1>1, Invariant, PTL

\* No path loses or doubles a permit, whatever the number of connections and
\* the limits: accept and its rejection, every way out of a connection, a panic
\* caught by catch_unwind, a query refused for want of a permit.
THEOREM PermitsSafe == Spec => []PermitsAddUp
<1>1. IInv => PermitsAddUp
  BY DEF IInv, PermitsInv, PermitsAddUp, Held, Querying
<1> QED BY <1>1, Invariant, PTL

\* on_disconnect leaves nothing behind, for any number of connections and
\* although a MySQL and a PostgreSQL connection may share a number and remove
\* each other's entries.
THEOREM NothingStale == Spec => []NoStaleSession
<1>1. IInv => NoStaleSession
  BY DEF IInv, OwnerInv, NoStaleSession, Answers
<1> QED BY <1>1, Invariant, PTL

\* A connection whose number the other server has not reached runs its
\* statements in the database it selected last.
THEOREM DatabaseKept == Spec => []OwnDatabaseWithinServer
<1>1. IInv => OwnDatabaseWithinServer
  BY DEF IInv, DatabaseInv, Unshared, OwnDatabaseWithinServer, Serving
<1> QED BY <1>1, Invariant, PTL

=============================================================================
