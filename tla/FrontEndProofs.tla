--------------------------- MODULE FrontEndProofs --------------------------
(***************************************************************************)
(* What a front end shows is what there is, for every fleet of devices,    *)
(* session, number of handlers and capacity of the channels.               *)
(***************************************************************************)
EXTENDS MeshProgramsProofs

----------------------------------------------------------------------------
(* The last event of a kind in a channel                                   *)

\* The last event of c that is in S is in T.
Ends(c, S, T) ==
    \E k \in DOMAIN c : c[k] \in T /\ \A j \in DOMAIN c : j > k => c[j] \notin S

Silent(c, S) == \A k \in DOMAIN c : c[k] \notin S

LEMMA EndsAppend ==
    ASSUME NEW E, NEW c \in Seq(E), NEW e \in E, NEW S, NEW T, T \subseteq S
    PROVE  /\ Ends(Append(c, e), S, T) <=> e \in T \/ (e \notin S /\ Ends(c, S, T))
           /\ Silent(Append(c, e), S) <=> e \notin S /\ Silent(c, S)
<1> DEFINE d == Append(c, e)
           n == Len(c) + 1
<1>1. /\ n \in Nat \ {0} /\ DOMAIN c = 1 .. n - 1 /\ DOMAIN d = 1 .. n
      /\ d[n] = e /\ \A k \in 1 .. n - 1 : d[k] = c[k]
  OBVIOUS
<1> HIDE DEF d, n
<1>2. Silent(d, S) <=> e \notin S /\ Silent(c, S)
  <2>1. n \in 1 .. n /\ \A k \in 1 .. n : k = n \/ k \in 1 .. n - 1
    BY <1>1
  <2> QED  BY <1>1, <2>1 DEF Silent
<1>3. ASSUME Ends(d, S, T) PROVE e \in T \/ (e \notin S /\ Ends(c, S, T))
  <2>1. PICK k \in 1 .. n : d[k] \in T /\ \A j \in 1 .. n : j > k => d[j] \notin S
    BY <1>1, <1>3 DEF Ends
  <2>2. CASE k = n
    BY <1>1, <2>1, <2>2
  <2>3. CASE k # n
    <3>1. k \in 1 .. n - 1 /\ n > k /\ n \in 1 .. n
      BY <1>1, <2>3
    <3>2. e \notin S /\ c[k] \in T
      BY <1>1, <2>1, <3>1
    <3>3. \A j \in 1 .. n - 1 : j > k => c[j] \notin S
      BY <1>1, <2>1
    <3> QED  BY <1>1, <3>1, <3>2, <3>3 DEF Ends
  <2> QED  BY <2>2, <2>3
<1>4. ASSUME e \in T PROVE Ends(d, S, T)
  <2>1. n \in 1 .. n /\ \A j \in 1 .. n : ~(j > n)
    BY <1>1
  <2> QED  BY <1>1, <1>4, <2>1 DEF Ends
<1>5. ASSUME e \notin S, Ends(c, S, T) PROVE Ends(d, S, T)
  <2>1. PICK k \in 1 .. n - 1 :
            c[k] \in T /\ \A j \in 1 .. n - 1 : j > k => c[j] \notin S
    BY <1>1, <1>5 DEF Ends
  <2>2. k \in 1 .. n /\ d[k] \in T
    BY <1>1, <2>1
  <2>3. ASSUME NEW j \in 1 .. n, j > k PROVE d[j] \notin S
    <3>1. CASE j = n
      BY <1>1, <1>5, <3>1
    <3>2. CASE j # n
      <4>1. j \in 1 .. n - 1
        BY <1>1, <3>2
      <4> QED  BY <1>1, <2>1, <2>3, <4>1
    <3> QED  BY <3>1, <3>2
  <2> QED  BY <1>1, <2>2, <2>3 DEF Ends
<1>6. Ends(d, S, T) <=> e \in T \/ (e \notin S /\ Ends(c, S, T))
  BY <1>3, <1>4, <1>5
<1> QED  BY <1>2, <1>6 DEF d

LEMMA EndsTail ==
    ASSUME NEW E, NEW c \in Seq(E), c # <<>>, NEW S, NEW T, T \subseteq S
    PROVE  /\ Ends(c, S, T) <=>
                  Ends(Tail(c), S, T) \/ (c[1] \in T /\ Silent(Tail(c), S))
           /\ Silent(c, S) <=> c[1] \notin S /\ Silent(Tail(c), S)
<1> DEFINE d == Tail(c)
           n == Len(c)
<1>1. /\ n \in Nat \ {0} /\ DOMAIN c = 1 .. n /\ DOMAIN d = 1 .. n - 1
      /\ \A k \in 1 .. n - 1 : d[k] = c[k + 1]
  OBVIOUS
<1> HIDE DEF d, n
<1>2. \A k \in 1 .. n : k = 1 \/ (k - 1 \in 1 .. n - 1 /\ d[k - 1] = c[k])
  <2> SUFFICES ASSUME NEW k \in 1 .. n, k # 1
               PROVE  k - 1 \in 1 .. n - 1 /\ d[k - 1] = c[k]
    OBVIOUS
  <2>1. k - 1 \in 1 .. n - 1 /\ (k - 1) + 1 = k
    BY <1>1
  <2> QED  BY <1>1, <2>1
<1>3. \A k \in 1 .. n - 1 : k + 1 \in 1 .. n
  BY <1>1
<1>4. Silent(c, S) <=> c[1] \notin S /\ Silent(d, S)
  <2>1. 1 \in 1 .. n
    BY <1>1
  <2>2. Silent(c, S) => c[1] \notin S /\ Silent(d, S)
    BY <1>1, <1>3, <2>1 DEF Silent
  <2>3. c[1] \notin S /\ Silent(d, S) => Silent(c, S)
    BY <1>1, <1>2 DEF Silent
  <2> QED  BY <2>2, <2>3
<1>5. ASSUME Ends(c, S, T) PROVE Ends(d, S, T) \/ (c[1] \in T /\ Silent(d, S))
  <2>1. PICK k \in 1 .. n : c[k] \in T /\ \A j \in 1 .. n : j > k => c[j] \notin S
    BY <1>1, <1>5 DEF Ends
  <2>2. CASE k = 1
    <3>1. \A j \in 1 .. n - 1 : d[j] \notin S
      <4> SUFFICES ASSUME NEW j \in 1 .. n - 1 PROVE d[j] \notin S
        OBVIOUS
      <4>1. j + 1 \in 1 .. n /\ j + 1 > k
        BY <1>1, <2>2
      <4> QED  BY <1>1, <2>1, <4>1
    <3> QED  BY <1>1, <2>1, <2>2, <3>1 DEF Silent
  <2>3. CASE k # 1
    <3>1. k - 1 \in 1 .. n - 1 /\ d[k - 1] \in T
      BY <1>2, <2>1, <2>3
    <3>2. ASSUME NEW j \in 1 .. n - 1, j > k - 1 PROVE d[j] \notin S
      <4>1. j + 1 \in 1 .. n /\ j + 1 > k
        BY <1>1, <3>2
      <4> QED  BY <1>1, <2>1, <4>1
    <3> QED  BY <1>1, <3>1, <3>2 DEF Ends
  <2> QED  BY <2>2, <2>3
<1>6. ASSUME Ends(d, S, T) PROVE Ends(c, S, T)
  <2>1. PICK k \in 1 .. n - 1 :
            d[k] \in T /\ \A j \in 1 .. n - 1 : j > k => d[j] \notin S
    BY <1>1, <1>6 DEF Ends
  <2>2. k + 1 \in 1 .. n /\ c[k + 1] \in T
    BY <1>1, <1>3, <2>1
  <2>3. ASSUME NEW j \in 1 .. n, j > k + 1 PROVE c[j] \notin S
    <3>1. j # 1 /\ j - 1 > k
      BY <2>3
    <3> QED  BY <1>2, <2>1, <3>1
  <2> QED  BY <1>1, <2>2, <2>3 DEF Ends
<1>7. ASSUME c[1] \in T, Silent(d, S) PROVE Ends(c, S, T)
  <2>1. ASSUME NEW j \in 1 .. n, j > 1 PROVE c[j] \notin S
    <3>1. j - 1 \in 1 .. n - 1 /\ d[j - 1] = c[j]
      BY <1>2, <2>1
    <3> QED  BY <1>1, <1>7, <3>1 DEF Silent
  <2>2. 1 \in 1 .. n
    BY <1>1
  <2> QED  BY <1>1, <1>7, <2>1, <2>2 DEF Ends
<1>8. Ends(c, S, T) <=> Ends(d, S, T) \/ (c[1] \in T /\ Silent(d, S))
  BY <1>5, <1>6, <1>7
<1> QED  BY <1>4, <1>8 DEF d

----------------------------------------------------------------------------
(* What a front end will show when it has read its channel.  A mark is a   *)
(* user at a node, or, for NoUser, the node itself.                        *)

Marks == User \cup {NoUser}

\* The events that change a mark, and those of them that make it.
News(id, user) ==
    {e \in Event :
        /\ e.id = id
        /\ \/ e.type \in {"NODE_JOINED", "NODE_LEFT"}
           \/ /\ e.type \in {"CREATE_USER", "DELETE_USER"}
              /\ e.user = user /\ user # NoUser}

Good(id, user) ==
    {e \in News(id, user) :
        e.type = IF user = NoUser THEN "NODE_JOINED" ELSE "CREATE_USER"}

Shows(id, user) ==
    IF user = NoUser THEN id \in shownNodes ELSE <<id, user>> \in shownUsers

WillShow(id, user) ==
    \/ Ends(channels[1], News(id, user), Good(id, user))
    \/ Silent(channels[1], News(id, user)) /\ Shows(id, user)

\* The front end has missed nothing.
Informed == sockets[1] /\ lost[1] = NoneLost

LEMMA PublishShows ==
    ASSUME BusTypeOK, channels # <<>>, NEW e \in Event, Publish(e),
           UNCHANGED <<shownNodes, shownUsers, sockets>>, Informed'
    PROVE  /\ Informed /\ channels'[1] = Append(channels[1], e)
           /\ \A id \in NodeID, user \in Marks :
                 WillShow(id, user)' <=>
                     IF e \in News(id, user) THEN e \in Good(id, user)
                     ELSE WillShow(id, user)
<1>1. 1 \in DOMAIN channels /\ 1 \in DOMAIN lost /\ channels[1] \in Seq(Event)
      /\ lost[1] \in [EventType -> Nat] /\ e.type \in EventType
  BY DEF BusTypeOK, Event
<1>2. /\ channels'[1] = IF Len(channels[1]) = BusCap THEN channels[1]
                        ELSE Append(channels[1], e)
      /\ lost'[1] = IF Len(channels[1]) = BusCap
                    THEN [lost[1] EXCEPT ![e.type] = @ + 1] ELSE lost[1]
  BY <1>1 DEF Publish
<1>3. lost'[1] = NoneLost
  BY DEF Informed
<1>4. Len(channels[1]) # BusCap
  <2> SUFFICES ASSUME Len(channels[1]) = BusCap PROVE FALSE
    OBVIOUS
  <2>1. NoneLost[e.type] = lost[1][e.type] + 1
    BY <1>1, <1>2, <1>3
  <2>2. NoneLost[e.type] = 0
    BY <1>1 DEF NoneLost
  <2> QED  BY <1>1, <2>1, <2>2
<1>5. Informed /\ channels'[1] = Append(channels[1], e)
  BY <1>2, <1>4 DEF Informed
<1>6. ASSUME NEW id \in NodeID, NEW user \in Marks
      PROVE  WillShow(id, user)' <=>
                 IF e \in News(id, user) THEN e \in Good(id, user)
                 ELSE WillShow(id, user)
  <2> DEFINE S == News(id, user)
             T == Good(id, user)
             c == channels[1]
  <2>1. T \subseteq S
    BY DEF Good
  <2>2. /\ Ends(Append(c, e), S, T) <=> e \in T \/ (e \notin S /\ Ends(c, S, T))
        /\ Silent(Append(c, e), S) <=> e \notin S /\ Silent(c, S)
    BY <1>1, <2>1, EndsAppend
  <2>3. Shows(id, user)' <=> Shows(id, user)
    BY DEF Shows
  <2>4. WillShow(id, user)' <=> \/ Ends(Append(c, e), S, T)
                                \/ Silent(Append(c, e), S) /\ Shows(id, user)
    BY <1>5, <2>3 DEF WillShow
  <2>5. WillShow(id, user) <=> Ends(c, S, T) \/ (Silent(c, S) /\ Shows(id, user))
    BY DEF WillShow
  <2> HIDE DEF S, T
  <2>6. WillShow(id, user)' <=> IF e \in S THEN e \in T ELSE WillShow(id, user)
    BY <2>1, <2>2, <2>4, <2>5
  <2> QED  BY <2>6 DEF S, T
<1> QED  BY <1>5, <1>6

LEMMA ShowMarks ==
    ASSUME NEW e \in Event, Show(e), NEW id \in NodeID, NEW user \in Marks
    PROVE  Shows(id, user)' <=>
               e \in Good(id, user) \/ (e \notin News(id, user) /\ Shows(id, user))
<1>1. CASE user = NoUser
  BY <1>1 DEF Show, Shows, Good, News
<1>2. CASE user # NoUser
  <2>1. e \in News(id, user) <=>
            /\ e.id = id
            /\ \/ e.type \in {"NODE_JOINED", "NODE_LEFT"}
               \/ e.type \in {"CREATE_USER", "DELETE_USER"} /\ e.user = user
    BY <1>2 DEF News
  <2>2. e \in Good(id, user) <=> e.type = "CREATE_USER" /\ e.id = id /\ e.user = user
    BY <1>2, <2>1 DEF Good
  <2>3. /\ Shows(id, user) <=> <<id, user>> \in shownUsers
        /\ Shows(id, user)' <=> <<id, user>> \in shownUsers'
    BY <1>2 DEF Shows
  <2>4. CASE e.type \in {"NODE_JOINED", "NODE_LEFT"}
    <3>1. shownUsers' = {s \in shownUsers : s[1] # e.id}
      BY <2>4 DEF Show
    <3>2. <<id, user>>[1] = id
      OBVIOUS
    <3> QED  BY <2>1, <2>2, <2>3, <2>4, <3>1, <3>2
  <2>5. CASE e.type = "CREATE_USER"
    <3>1. shownUsers' = shownUsers \cup {<<e.id, e.user>>}
      BY <2>5 DEF Show
    <3>2. <<id, user>> = <<e.id, e.user>> <=> id = e.id /\ user = e.user
      OBVIOUS
    <3> QED  BY <2>1, <2>2, <2>3, <2>5, <3>1, <3>2
  <2>6. CASE e.type = "DELETE_USER"
    <3>1. shownUsers' = shownUsers \ {<<e.id, e.user>>}
      BY <2>6 DEF Show
    <3>2. <<id, user>> = <<e.id, e.user>> <=> id = e.id /\ user = e.user
      OBVIOUS
    <3> QED  BY <2>1, <2>2, <2>3, <2>6, <3>1, <3>2
  <2>7. CASE e.type \notin {"NODE_JOINED", "NODE_LEFT", "CREATE_USER", "DELETE_USER"}
    <3>1. shownUsers' = shownUsers
      BY <2>7 DEF Show
    <3> QED  BY <2>1, <2>2, <2>3, <2>7, <3>1
  <2> QED  BY <2>4, <2>5, <2>6, <2>7
<1> QED  BY <1>1, <1>2

LEMMA ReadShows ==
    ASSUME BusTypeOK, 1 \in DOMAIN channels, channels[1] # <<>>,
           channels' = [channels EXCEPT ![1] = Tail(@)], Show(Head(channels[1]))
    PROVE  \A id \in NodeID, user \in Marks : WillShow(id, user)' <=> WillShow(id, user)
<1> SUFFICES ASSUME NEW id \in NodeID, NEW user \in Marks
             PROVE  WillShow(id, user)' <=> WillShow(id, user)
  OBVIOUS
<1> DEFINE S == News(id, user)
           T == Good(id, user)
           c == channels[1]
<1>1. c \in Seq(Event) /\ channels'[1] = Tail(c) /\ Head(c) = c[1] /\ c[1] \in Event
  BY DEF BusTypeOK
<1>2. T \subseteq S
  BY DEF Good
<1>3. /\ Ends(c, S, T) <=> Ends(Tail(c), S, T) \/ (c[1] \in T /\ Silent(Tail(c), S))
      /\ Silent(c, S) <=> c[1] \notin S /\ Silent(Tail(c), S)
  BY <1>1, <1>2, EndsTail
<1>4. Shows(id, user)' <=> c[1] \in T \/ (c[1] \notin S /\ Shows(id, user))
  BY <1>1, ShowMarks
<1>5. WillShow(id, user)' <=> \/ Ends(Tail(c), S, T)
                              \/ Silent(Tail(c), S) /\ Shows(id, user)'
  BY <1>1 DEF WillShow
<1>6. WillShow(id, user) <=> Ends(c, S, T) \/ (Silent(c, S) /\ Shows(id, user))
  BY DEF WillShow
<1> HIDE DEF S, T, c
<1> QED  BY <1>2, <1>3, <1>4, <1>5, <1>6

----------------------------------------------------------------------------
(* What the handlers have left to tell                                     *)

\* What a front end is to show when every handler has told what it did: the
\* events of a join or of a removal come before the network goroutine acts.
Expected(id, user) ==
    IF serving # Nothing /\ id \in About(serving)
    THEN user = NoUser /\ serving.op = "join"
    ELSE IF user = NoUser THEN Nodes[id] # NoObject ELSE user \in usersAt(id)

Telling(id, user) == {s \in Step : s.do = "publish" /\ s.event \in News(id, user)}

Making(id, user) == {s \in Step : s.do = "publish" /\ s.event \in Good(id, user)}

Tells(todo, id, user) == ~Silent(todo, Telling(id, user))

\* A handler that still looks for a node may fail, and has done nothing yet.
Owes(todo, id, user) == todo[1].do # "find" /\ Tells(todo, id, user)

\* What this handler tells last is right.
Told(todo, id, user) ==
    Tells(todo, id, user) =>
        (Ends(todo, Telling(id, user), Making(id, user)) <=> Expected(id, user))

LEMMA PublishTells ==
    ASSUME NEW type \in EventType, NEW n \in NodeID, NEW w \in Marks,
           NEW id \in NodeID, NEW user \in Marks
    PROVE  /\ publish(type, n, w) \in Step
           /\ publish(type, n, w) \in Telling(id, user) <=>
                 /\ n = id
                 /\ \/ type \in {"NODE_JOINED", "NODE_LEFT"}
                    \/ /\ type \in {"CREATE_USER", "DELETE_USER"}
                       /\ w = user /\ user # NoUser
           /\ publish(type, n, w) \in Making(id, user) <=>
                 /\ publish(type, n, w) \in Telling(id, user)
                 /\ type = IF user = NoUser THEN "NODE_JOINED" ELSE "CREATE_USER"
<1> DEFINE e == [type |-> type, id |-> n, user |-> w]
           s == publish(type, n, w)
<1>1. e \in Event /\ e.type = type /\ e.id = n /\ e.user = w
  BY DEF Event, Marks
<1>2. s.do = "publish" /\ s.event = e
  BY DEF publish
<1>3. s \in [do : {"publish"}, event : Event]
  BY <1>1 DEF publish
<1>4. s \in Step
  BY <1>3 DEF Step
<1>5. s \in Telling(id, user) <=> e \in News(id, user)
  BY <1>2, <1>4 DEF Telling
<1>6. s \in Making(id, user) <=> e \in Good(id, user)
  BY <1>2, <1>4 DEF Making
<1> HIDE DEF e, s
<1>7. e \in News(id, user) <=>
          /\ n = id
          /\ \/ type \in {"NODE_JOINED", "NODE_LEFT"}
             \/ /\ type \in {"CREATE_USER", "DELETE_USER"}
                /\ w = user /\ user # NoUser
  BY <1>1 DEF News
<1>8. e \in Good(id, user) <=>
          /\ e \in News(id, user)
          /\ type = IF user = NoUser THEN "NODE_JOINED" ELSE "CREATE_USER"
  BY <1>1 DEF Good
<1> QED  BY <1>4, <1>5, <1>6, <1>7, <1>8 DEF s

LEMMA MakingTells ==
    ASSUME NEW id, NEW user
    PROVE  Making(id, user) \subseteq Telling(id, user)
BY DEF Making, Telling, Good

\* What a short sequence of steps tells.
LEMMA TellsFirst ==
    ASSUME NEW todo \in Seq(Step), todo # <<>>, NEW id, NEW user
    PROVE  /\ Tells(todo, id, user) <=>
                  todo[1] \in Telling(id, user) \/ Tells(Tail(todo), id, user)
           /\ Ends(todo, Telling(id, user), Making(id, user)) <=>
                  \/ Ends(Tail(todo), Telling(id, user), Making(id, user))
                  \/ todo[1] \in Making(id, user) /\ ~Tells(Tail(todo), id, user)
BY EndsTail, MakingTells DEF Tells

LEMMA TellsNothing ==
    ASSUME NEW id, NEW user
    PROVE  /\ ~Tells(<<>>, id, user)
           /\ ~Ends(<<>>, Telling(id, user), Making(id, user))
BY DEF Tells, Silent, Ends

LEMMA TellsOne ==
    ASSUME NEW x \in Step, NEW id, NEW user
    PROVE  /\ Tells(<<x>>, id, user) <=> x \in Telling(id, user)
           /\ Ends(<<x>>, Telling(id, user), Making(id, user)) <=> x \in Making(id, user)
<1> DEFINE c == <<x>>
<1>1. c \in Seq(Step) /\ c # <<>> /\ c[1] = x /\ Tail(c) = <<>>
  OBVIOUS
<1> HIDE DEF c
<1> QED  BY <1>1, TellsFirst, TellsNothing DEF c

LEMMA TellsTwo ==
    ASSUME NEW x \in Step, NEW y \in Step, NEW id, NEW user
    PROVE  /\ Tells(<<x, y>>, id, user) <=>
                  x \in Telling(id, user) \/ y \in Telling(id, user)
           /\ Ends(<<x, y>>, Telling(id, user), Making(id, user)) <=>
                  \/ y \in Making(id, user)
                  \/ x \in Making(id, user) /\ y \notin Telling(id, user)
<1> DEFINE c == <<x, y>>
<1>1. c \in Seq(Step) /\ c # <<>> /\ c[1] = x /\ Tail(c) = <<y>>
  OBVIOUS
<1> HIDE DEF c
<1>2. /\ Tells(c, id, user) <=>
             c[1] \in Telling(id, user) \/ Tells(Tail(c), id, user)
      /\ Ends(c, Telling(id, user), Making(id, user)) <=>
             \/ Ends(Tail(c), Telling(id, user), Making(id, user))
             \/ c[1] \in Making(id, user) /\ ~Tells(Tail(c), id, user)
  BY <1>1, TellsFirst
<1>3. /\ Tells(c, id, user) <=>
             x \in Telling(id, user) \/ Tells(<<y>>, id, user)
      /\ Ends(c, Telling(id, user), Making(id, user)) <=>
             \/ Ends(<<y>>, Telling(id, user), Making(id, user))
             \/ x \in Making(id, user) /\ ~Tells(<<y>>, id, user)
  BY <1>1, <1>2
<1> QED  BY <1>3, TellsOne DEF c

----------------------------------------------------------------------------
(* What a step changes of what is expected                                 *)

LEMMA RemovedFrom ==
    ASSUME RegistryTypeOK, ServerTypeOK, MapInv, UNCHANGED Nodes,
           NEW at \in NodeID, Nodes[at] # NoObject, NEW user,
           connectedUsers' = [connectedUsers EXCEPT ![Nodes[at]] = @ \ {user}]
    PROVE  \A id \in NodeID : usersAt(id)' =
               IF id = at THEN usersAt(id) \ {user} ELSE usersAt(id)
<1>1. connectedUsers \in [Object -> SUBSET User] /\ Nodes[at] \in Object
  BY DEF RegistryTypeOK, ServerTypeOK
<1> SUFFICES ASSUME NEW id \in NodeID
             PROVE  usersAt(id)' = IF id = at THEN usersAt(id) \ {user} ELSE usersAt(id)
  OBVIOUS
<1>2. CASE Nodes[id] = NoObject
  BY <1>2 DEF usersAt
<1>3. CASE Nodes[id] # NoObject /\ id # at
  <2>1. Nodes[id] # Nodes[at]
    BY <1>3 DEF MapInv
  <2> QED  BY <1>1, <1>3, <2>1 DEF usersAt
<1>4. CASE id = at
  BY <1>1, <1>4 DEF usersAt
<1> QED  BY <1>2, <1>3, <1>4

LEMMA ExpectedFrame ==
    ASSUME UNCHANGED <<Nodes, serving>>, NEW at, NEW u,
           \A id \in NodeID, w \in User :
               (w \in usersAt(id)' <=> w \in usersAt(id)) \/ (id = at /\ w = u)
    PROVE  \A id \in NodeID, user \in Marks :
               (Expected(id, user)' <=> Expected(id, user)) \/ (id = at /\ user = u)
<1> SUFFICES ASSUME NEW id \in NodeID, NEW user \in Marks, ~(id = at /\ user = u)
             PROVE  Expected(id, user)' <=> Expected(id, user)
  OBVIOUS
<1>1. CASE user = NoUser
  BY <1>1 DEF Expected
<1>2. CASE user # NoUser
  <2>1. user \in User
    BY <1>2 DEF Marks
  <2>2. user \in usersAt(id)' <=> user \in usersAt(id)
    BY <2>1
  <2> QED  BY <1>2, <2>2 DEF Expected
<1> QED  BY <1>1, <1>2

LEMMA ExpectedSame ==
    ASSUME UNCHANGED <<Nodes, serving, connectedUsers>>
    PROVE  \A id \in NodeID, user \in Marks : Expected(id, user)' <=> Expected(id, user)
BY DEF Expected, usersAt

\* A handler that edits users changes what is expected only of what it is yet to
\* tell, and starts to tell when that has become right.
LEMMA EditTells ==
    ASSUME TypeOK, MapInv, UNCHANGED <<Nodes, goroutine>>,
           NEW q \in Call, Edits(q), NEW todo, NEW found, Stage(q, todo, found),
           NEW left, NEW known, Effect(todo, found, left, known),
           serving # Nothing => About(serving) \cap About(q) = {}
    PROVE  /\ \A id \in NodeID, user \in Marks :
                 /\ todo[1].do \notin {"find", "publish"} =>
                       \/ Expected(id, user)' <=> Expected(id, user)
                       \/ Tells(left, id, user)
                 /\ left # <<>> /\ left[1].do = "publish" /\ todo[1].do # "publish" =>
                       (Tells(left, id, user) =>
                           (Ends(left, Telling(id, user), Making(id, user))
                               <=> Expected(id, user)'))
           /\ todo[1].do # "find" => left = <<>> \/ left[1].do # "find"
<1>0. /\ RegistryTypeOK /\ ServerTypeOK
      /\ q.id \in NodeID /\ q.user \in User /\ q.id \in About(q)
      /\ q.op = "moveUser" => q.other \in NodeID /\ q.other \in About(q)
      /\ q.user \in Marks /\ NoUser \in Marks /\ q.user # NoUser
  BY EditFields, RegistryAssumption DEF TypeOK, Marks, RegistryAssumption
<1> DEFINE created == publish("CREATE_USER", q.id, q.user)
           deleted == publish("DELETE_USER", q.id, q.user)
           moved   == publish("CREATE_USER", q.other, q.user)
           Goal == /\ \A id \in NodeID, user \in Marks :
                         /\ todo[1].do \notin {"find", "publish"} =>
                               \/ Expected(id, user)' <=> Expected(id, user)
                               \/ Tells(left, id, user)
                         /\ left # <<>> /\ left[1].do = "publish"
                              /\ todo[1].do # "publish" =>
                               (Tells(left, id, user) =>
                                   (Ends(left, Telling(id, user), Making(id, user))
                                       <=> Expected(id, user)'))
                   /\ todo[1].do # "find" => left = <<>> \/ left[1].do # "find"
           At2  == /\ q.op \in {"createUser", "addUser"}
                   /\ todo = <<add(1, q.user), created>>
                   /\ Knows(found, <<q.id>>) /\ Nowhere(q.user)
           At5  == /\ q.op \in {"deleteUser", "removeUser"}
                   /\ todo = <<remove(1, q.user), deleted>>
                   /\ Knows(found, <<q.id>>)
           At9  == /\ q.op = "moveUser"
                   /\ todo = <<remove(1, q.user), add(2, q.user), deleted, moved>>
                   /\ Knows(found, <<q.id, q.other>>) /\ OnlyAt(q.user, q.id)
           At10 == /\ q.op = "moveUser"
                   /\ todo = <<add(2, q.user), deleted, moved>>
                   /\ Knows(found, <<q.id, q.other>>) /\ Nowhere(q.user)
           Looks == \/ todo = <<find(q.id), add(1, q.user), created>>
                    \/ todo = <<find(q.id), remove(1, q.user), deleted>>
                    \/ todo = <<find(q.id), find(q.other), remove(1, q.user),
                                add(2, q.user), deleted, moved>>
                    \/ todo = <<find(q.other), remove(1, q.user), add(2, q.user),
                                deleted, moved>>
           Told3 == \/ todo = <<created>> \/ todo = <<deleted>>
                    \/ todo = <<deleted, moved>> \/ todo = <<moved>>
<1>1. /\ created \in Step /\ deleted \in Step
      /\ created.do = "publish" /\ deleted.do = "publish" /\ moved.do = "publish"
      /\ q.op = "moveUser" => moved \in Step
      /\ \A id \in NodeID, user \in Marks :
            /\ created \in Telling(id, user) <=> id = q.id /\ user = q.user
            /\ created \in Making(id, user) <=> created \in Telling(id, user)
            /\ deleted \in Telling(id, user) <=> id = q.id /\ user = q.user
            /\ deleted \notin Making(id, user)
            /\ q.op = "moveUser" =>
                  /\ moved \in Telling(id, user) <=> id = q.other /\ user = q.user
                  /\ moved \in Making(id, user) <=> moved \in Telling(id, user)
  <2>1. "CREATE_USER" \in EventType /\ "DELETE_USER" \in EventType
    BY DEF EventType
  <2>2. created.do = "publish" /\ deleted.do = "publish" /\ moved.do = "publish"
    BY StepFields
  <2>3. created \in Step /\ deleted \in Step /\ (q.op = "moveUser" => moved \in Step)
    BY <1>0, <2>1, PublishTells
  <2>4. ASSUME NEW id \in NodeID, NEW user \in Marks
        PROVE  /\ created \in Telling(id, user) <=> id = q.id /\ user = q.user
               /\ created \in Making(id, user) <=> created \in Telling(id, user)
               /\ deleted \in Telling(id, user) <=> id = q.id /\ user = q.user
               /\ deleted \notin Making(id, user)
               /\ q.op = "moveUser" =>
                     /\ moved \in Telling(id, user) <=> id = q.other /\ user = q.user
                     /\ moved \in Making(id, user) <=> moved \in Telling(id, user)
    BY <1>0, <2>1, PublishTells
  <2> QED  BY <2>2, <2>3, <2>4
<1> HIDE DEF created, deleted, moved
<1>9. ASSUME UNCHANGED serving, NEW id \in NodeID, id \in About(q)
      PROVE  Expected(id, q.user)' <=> q.user \in usersAt(id)'
  <2>1. ~(serving' # Nothing /\ id \in About(serving'))
    BY <1>9
  <2> QED  BY <1>0, <2>1 DEF Expected
<1>10. ASSUME UNCHANGED serving, NEW at,
              \A id \in NodeID : \/ usersAt(id)' = usersAt(id)
                                 \/ /\ id = at
                                    /\ \/ usersAt(id)' = usersAt(id) \cup {q.user}
                                       \/ usersAt(id)' = usersAt(id) \ {q.user}
       PROVE  \A id \in NodeID, user \in Marks :
                  \/ Expected(id, user)' <=> Expected(id, user)
                  \/ id = at /\ user = q.user
  <2>1. \A id \in NodeID, w \in User :
            (w \in usersAt(id)' <=> w \in usersAt(id)) \/ (id = at /\ w = q.user)
    BY <1>10
  <2> QED  BY <1>10, <2>1, ExpectedFrame
<1>2. CASE Looks
  <2>1. todo[1].do = "find" /\ Tail(todo)[1].do # "publish"
    <3>1. CASE todo = <<find(q.id), add(1, q.user), created>>
      BY <3>1, Rests, StepFields
    <3>2. CASE todo = <<find(q.id), remove(1, q.user), deleted>>
      BY <3>2, Rests, StepFields
    <3>3. CASE todo = <<find(q.id), find(q.other), remove(1, q.user),
                        add(2, q.user), deleted, moved>>
      BY <3>3, Rests, StepFields
    <3>4. CASE todo = <<find(q.other), remove(1, q.user), add(2, q.user), deleted,
                        moved>>
      BY <3>4, Rests, StepFields
    <3> QED  BY <1>2, <3>1, <3>2, <3>3, <3>4
  <2>2. left = <<>> \/ left = Tail(todo)
    BY DEF Effect
  <2>3. ~(left # <<>> /\ left[1].do = "publish")
    BY <2>1, <2>2
  <2> QED  BY <2>1, <2>3
<1>3. CASE Told3
  <2>1. todo[1].do = "publish" /\ Tail(todo) \in {<<>>, <<moved>>}
    <3>1. CASE todo = <<created>>
      BY <1>1, <3>1, Rests
    <3>2. CASE todo = <<deleted>>
      BY <1>1, <3>2, Rests
    <3>3. CASE todo = <<deleted, moved>>
      BY <1>1, <3>3, Rests
    <3>4. CASE todo = <<moved>>
      BY <1>1, <3>4, Rests
    <3> QED  BY <1>3, <3>1, <3>2, <3>3, <3>4
  <2>2. left = Tail(todo)
    BY <2>1 DEF Effect
  <2>3. left = <<>> \/ left[1].do # "find"
    <3>1. <<moved>>[1].do # "find"
      BY <1>1, Rests
    <3> QED  BY <2>1, <2>2, <3>1
  <2> QED  BY <2>1, <2>3
<1>4. CASE At2
  <2>1. todo[1] = add(1, q.user) /\ Tail(todo) = <<created>>
    BY <1>4, Rests
  <2>2. Nodes[q.id] # NoObject /\ found[1] = Nodes[q.id]
    BY <1>4 DEF Knows
  <2>3. /\ left = Tail(todo) /\ UNCHANGED serving
        /\ connectedUsers' = [connectedUsers EXCEPT ![Nodes[q.id]] = @ \cup {q.user}]
    BY <2>1, <2>2, EffectOfAdd
  <2>4. \A id \in NodeID : usersAt(id)' =
            IF id = q.id THEN usersAt(id) \cup {q.user} ELSE usersAt(id)
    BY <1>0, <2>2, <2>3, AddedAt
  <2>5. \A id \in NodeID, user \in Marks :
            \/ Expected(id, user)' <=> Expected(id, user)
            \/ id = q.id /\ user = q.user
    BY <1>10, <2>3, <2>4
  <2>6. Expected(q.id, q.user)'
    <3>1. Expected(q.id, q.user)' <=> q.user \in usersAt(q.id)'
      BY <1>0, <1>9, <2>3
    <3>2. q.user \in usersAt(q.id)'
      BY <1>0, <2>4
    <3> QED  BY <3>1, <3>2
  <2>7. left = <<created>> /\ left[1] = created
    <3>1. left = <<created>>
      BY <2>1, <2>3
    <3> QED  BY <3>1, Rests
  <2>8. \A id \in NodeID, user \in Marks :
            /\ Tells(left, id, user) <=> created \in Telling(id, user)
            /\ Ends(left, Telling(id, user), Making(id, user)) <=>
                  created \in Making(id, user)
    BY <1>1, <2>7, TellsOne
  <2> QED  BY <1>0, <1>1, <2>5, <2>6, <2>7, <2>8
<1>5. CASE At5
  <2>1. todo[1] = remove(1, q.user) /\ Tail(todo) = <<deleted>>
    BY <1>5, Rests
  <2>2. Nodes[q.id] # NoObject /\ found[1] = Nodes[q.id]
    BY <1>5 DEF Knows
  <2>3. /\ left = Tail(todo) /\ UNCHANGED serving
        /\ connectedUsers' = [connectedUsers EXCEPT ![Nodes[q.id]] = @ \ {q.user}]
    BY <2>1, <2>2, EffectOfRemove
  <2>4. \A id \in NodeID : usersAt(id)' =
            IF id = q.id THEN usersAt(id) \ {q.user} ELSE usersAt(id)
    BY <1>0, <2>2, <2>3, RemovedFrom
  <2>5. \A id \in NodeID, user \in Marks :
            \/ Expected(id, user)' <=> Expected(id, user)
            \/ id = q.id /\ user = q.user
    BY <1>10, <2>3, <2>4
  <2>6. ~Expected(q.id, q.user)'
    <3>1. Expected(q.id, q.user)' <=> q.user \in usersAt(q.id)'
      BY <1>0, <1>9, <2>3
    <3>2. q.user \notin usersAt(q.id)'
      BY <1>0, <2>4
    <3> QED  BY <3>1, <3>2
  <2>7. left = <<deleted>> /\ left[1] = deleted
    <3>1. left = <<deleted>>
      BY <2>1, <2>3
    <3> QED  BY <3>1, Rests
  <2>8. \A id \in NodeID, user \in Marks :
            /\ Tells(left, id, user) <=> deleted \in Telling(id, user)
            /\ Ends(left, Telling(id, user), Making(id, user)) <=>
                  deleted \in Making(id, user)
    BY <1>1, <2>7, TellsOne
  <2> QED  BY <1>0, <1>1, <2>5, <2>6, <2>7, <2>8
<1>6. CASE At9
  <2>1. /\ todo[1] = remove(1, q.user)
        /\ Tail(todo) = <<add(2, q.user), deleted, moved>>
    BY <1>6, Rests
  <2>2. Nodes[q.id] # NoObject /\ found[1] = Nodes[q.id]
    BY <1>6 DEF Knows
  <2>3. /\ left = Tail(todo) /\ UNCHANGED serving
        /\ connectedUsers' = [connectedUsers EXCEPT ![Nodes[q.id]] = @ \ {q.user}]
    BY <2>1, <2>2, EffectOfRemove
  <2>4. \A id \in NodeID : usersAt(id)' =
            IF id = q.id THEN usersAt(id) \ {q.user} ELSE usersAt(id)
    BY <1>0, <2>2, <2>3, RemovedFrom
  <2>5. \A id \in NodeID, user \in Marks :
            \/ Expected(id, user)' <=> Expected(id, user)
            \/ id = q.id /\ user = q.user
    BY <1>10, <2>3, <2>4
  <2>6. left = <<add(2, q.user), deleted, moved>>
    BY <2>1, <2>3
  <2>7. left[1] = add(2, q.user) /\ 2 \in DOMAIN left /\ left[2] = deleted
    BY <2>6
  <2>8. left[1].do = "add"
    BY <2>7, StepFields
  <2>9. Tells(left, q.id, q.user)
    BY <1>0, <1>1, <2>7 DEF Tells, Silent
  <2> QED  BY <2>5, <2>8, <2>9
<1>7. CASE At10
  <2>1. todo[1] = add(2, q.user) /\ Tail(todo) = <<deleted, moved>>
    BY <1>7, Rests
  <2>2. found[2] = Nodes[q.other] /\ Nodes[q.other] # NoObject
    BY <1>7 DEF Knows
  <2>3. /\ left = Tail(todo) /\ UNCHANGED serving
        /\ connectedUsers' = [connectedUsers EXCEPT ![Nodes[q.other]] = @ \cup {q.user}]
    BY <2>1, <2>2, EffectOfAdd
  <2>4. \A id \in NodeID : usersAt(id)' =
            IF id = q.other THEN usersAt(id) \cup {q.user} ELSE usersAt(id)
    BY <1>0, <1>7, <2>2, <2>3, AddedAt
  <2>5. \A id \in NodeID, user \in Marks :
            \/ Expected(id, user)' <=> Expected(id, user)
            \/ id = q.other /\ user = q.user
    BY <1>10, <2>3, <2>4
  <2>6. Expected(q.other, q.user)'
    BY <1>0, <1>7, <1>9, <2>3, <2>4
  <2>7. q.other # q.id => ~Expected(q.id, q.user)'
    <3>1. Expected(q.id, q.user)' <=> q.user \in usersAt(q.id)'
      BY <1>0, <1>9, <2>3
    <3>2. q.other # q.id => usersAt(q.id)' = usersAt(q.id)
      BY <1>0, <2>4
    <3> QED  BY <1>0, <1>7, <3>1, <3>2 DEF Nowhere
  <2>8. left = <<deleted, moved>> /\ left[1] = deleted
    <3>1. left = <<deleted, moved>>
      BY <2>1, <2>3
    <3> QED  BY <3>1, Rests
  <2>9. \A id \in NodeID, user \in Marks :
            /\ Tells(left, id, user) <=> user = q.user /\ id \in {q.id, q.other}
            /\ Ends(left, Telling(id, user), Making(id, user)) <=>
                  user = q.user /\ id = q.other
    BY <1>1, <1>7, <2>8, TellsTwo
  <2> QED  BY <1>0, <1>1, <1>7, <2>3, <2>5, <2>6, <2>7, <2>8, <2>9
<1>8. Looks \/ Told3 \/ At2 \/ At5 \/ At9 \/ At10
  BY DEF Stage, created, deleted, moved
<1> HIDE DEF Looks, Told3, At2, At5, At9, At10
<1> QED  BY <1>2, <1>3, <1>4, <1>5, <1>6, <1>7, <1>8

LEMMA QuietTells ==
    ASSUME NEW todo,
           \A k \in DOMAIN todo :
               \/ todo[k].do \in {"find", "send"}
               \/ /\ todo[k].do = "publish"
                  /\ todo[k].event.type \in {"MOVED_NODE", "COMMAND_RECEIVED"},
           NEW id, NEW user
    PROVE  ~Tells(todo, id, user)
BY DEF Tells, Silent, Telling, News

\* The event of a join and of a removal.
LEMMA PlainEvents ==
    ASSUME NEW q \in Call
    PROVE  \A id \in NodeID, user \in Marks :
              /\ Creates(q) =>
                    LET came == publish("NODE_JOINED", IDOf[q.node], NoUser)
                    IN  /\ came \in Step /\ came.do = "publish"
                        /\ came \in Telling(id, user) <=> id = IDOf[q.node]
                        /\ came \in Making(id, user) <=>
                              id = IDOf[q.node] /\ user = NoUser
              /\ Removes(q) =>
                    LET gone == publish("NODE_LEFT", q.id, NoUser)
                    IN  /\ gone \in Step /\ gone.do = "publish"
                        /\ gone \in Telling(id, user) <=> id = q.id
                        /\ gone \notin Making(id, user)
<1> SUFFICES ASSUME NEW id \in NodeID, NEW user \in Marks
             PROVE  /\ Creates(q) =>
                          LET came == publish("NODE_JOINED", IDOf[q.node], NoUser)
                          IN  /\ came \in Step /\ came.do = "publish"
                              /\ came \in Telling(id, user) <=> id = IDOf[q.node]
                              /\ came \in Making(id, user) <=>
                                    id = IDOf[q.node] /\ user = NoUser
                    /\ Removes(q) =>
                          LET gone == publish("NODE_LEFT", q.id, NoUser)
                          IN  /\ gone \in Step /\ gone.do = "publish"
                              /\ gone \in Telling(id, user) <=> id = q.id
                              /\ gone \notin Making(id, user)
  OBVIOUS
<1>1. "NODE_JOINED" \in EventType /\ "NODE_LEFT" \in EventType /\ NoUser \in Marks
  BY DEF EventType, Marks
<1>2. ASSUME Creates(q)
      PROVE  LET came == publish("NODE_JOINED", IDOf[q.node], NoUser)
             IN  /\ came \in Step /\ came.do = "publish"
                 /\ came \in Telling(id, user) <=> id = IDOf[q.node]
                 /\ came \in Making(id, user) <=> id = IDOf[q.node] /\ user = NoUser
  <2> DEFINE n == IDOf[q.node]
             came == publish("NODE_JOINED", n, NoUser)
  <2>1. n \in NodeID
    BY <1>2, PlainFields, RegistryAssumption DEF RegistryAssumption
  <2>2. came.do = "publish"
    BY StepFields
  <2> HIDE DEF n
  <2>3. /\ came \in Step
        /\ came \in Telling(id, user) <=> id = n
        /\ came \in Making(id, user) <=> id = n /\ user = NoUser
    BY <1>1, <2>1, PublishTells
  <2> QED  BY <2>2, <2>3 DEF n
<1>3. ASSUME Removes(q)
      PROVE  LET gone == publish("NODE_LEFT", q.id, NoUser)
             IN  /\ gone \in Step /\ gone.do = "publish"
                 /\ gone \in Telling(id, user) <=> id = q.id
                 /\ gone \notin Making(id, user)
  <2> DEFINE gone == publish("NODE_LEFT", q.id, NoUser)
  <2>1. q.id \in NodeID
    BY <1>3, PlainFields
  <2>2. gone.do = "publish"
    BY StepFields
  <2>3. /\ gone \in Step
        /\ gone \in Telling(id, user) <=> id = q.id
        /\ gone \notin Making(id, user)
    BY <1>1, <2>1, PublishTells
  <2> QED  BY <2>2, <2>3
<1> QED  BY <1>2, <1>3

LEMMA AskTells ==
    ASSUME serving = Nothing, UNCHANGED <<Nodes, connectedUsers>>,
           serving' \in Request, NEW n, About(serving') = {n}
    PROVE  \A id \in NodeID, user \in Marks :
              Expected(id, user)' <=>
                 IF id = n THEN user = NoUser /\ serving'.op = "join"
                 ELSE Expected(id, user)
<1>1. serving' # Nothing
  BY DEF Request, Nothing
<1> QED  BY <1>1 DEF Expected, usersAt

\* A request that changes no users tells that a node comes or goes, before it
\* does.
LEMMA PlainTells ==
    ASSUME UNCHANGED Nodes, NEW q \in Call, NEW todo \in Seq(Step), todo # <<>>,
           Plain(q, todo), NEW found, NEW left, NEW known,
           Effect(todo, found, left, known),
           todo[1].do \in {"join", "leave"} => serving = Nothing
    PROVE  \A id \in NodeID, user \in Marks :
              /\ todo[1].do \notin {"find", "publish"} =>
                    \/ Expected(id, user)' <=> Expected(id, user)
                    \/ Tells(left, id, user)
              /\ left # <<>> /\ left[1].do = "publish" /\ todo[1].do # "publish" =>
                    (Tells(left, id, user) =>
                        (Ends(left, Telling(id, user), Making(id, user))
                            <=> Expected(id, user)'))
              /\ todo[1].do # "find" /\ Tells(left, id, user) => left[1].do # "find"
<1> DEFINE came == publish("NODE_JOINED", IDOf[q.node], NoUser)
           gone == publish("NODE_LEFT", q.id, NoUser)
<1>1. ASSUME NEW n \in NodeID, NEW e \in Step, e.do = "publish", left = <<e>>,
             serving = Nothing, serving' \in Request, About(serving') = {n},
             UNCHANGED connectedUsers,
             \A id \in NodeID, user \in Marks :
                 /\ e \in Telling(id, user) <=> id = n
                 /\ e \in Making(id, user) <=>
                       id = n /\ user = NoUser /\ serving'.op = "join"
      PROVE  \A id \in NodeID, user \in Marks :
                 /\ (Expected(id, user)' <=> Expected(id, user)) \/ Tells(left, id, user)
                 /\ Tells(left, id, user) =>
                        (Ends(left, Telling(id, user), Making(id, user))
                            <=> Expected(id, user)')
                 /\ left[1].do # "find"
  <2>1. \A id \in NodeID, user \in Marks :
            Expected(id, user)' <=>
                IF id = n THEN user = NoUser /\ serving'.op = "join"
                ELSE Expected(id, user)
    BY <1>1, AskTells
  <2>2. left[1] = e
    BY <1>1
  <2>3. \A id \in NodeID, user \in Marks :
            /\ Tells(left, id, user) <=> e \in Telling(id, user)
            /\ Ends(left, Telling(id, user), Making(id, user)) <=>
                  e \in Making(id, user)
    BY <1>1, TellsOne
  <2> QED  BY <1>1, <2>1, <2>2, <2>3
<1>2. CASE Creates(q)
  <2>1. CASE todo = <<join(q.node), came>>
    <3>1. todo[1] = join(q.node) /\ Tail(todo) = <<came>>
      BY <2>1, Rests
    <3>2. /\ left = <<came>> /\ UNCHANGED connectedUsers
          /\ serving' = [op |-> "join", node |-> q.node]
          /\ todo[1].do = "join"
      BY <3>1, JoinFields DEF Effect
    <3>3. q.node \in Object /\ IDOf[q.node] \in NodeID
      BY <1>2, PlainFields, RegistryAssumption DEF RegistryAssumption
    <3>4. /\ serving' \in Request /\ serving'.op = "join"
          /\ About(serving') = {IDOf[q.node]}
      <4>1. serving' \in Request /\ serving'.op = "join" /\ serving'.node = q.node
        BY <3>2, <3>3 DEF Request
      <4> QED  BY <4>1, AboutRequest
    <3>5. serving = Nothing
      BY <3>2
    <3>6. /\ came \in Step /\ came.do = "publish"
          /\ \A id \in NodeID, user \in Marks :
                /\ came \in Telling(id, user) <=> id = IDOf[q.node]
                /\ came \in Making(id, user) <=> id = IDOf[q.node] /\ user = NoUser
      BY <1>2, <3>3, PlainEvents DEF Marks
    <3> HIDE DEF came
    <3>7. \A id \in NodeID, user \in Marks :
              /\ (Expected(id, user)' <=> Expected(id, user)) \/ Tells(left, id, user)
              /\ Tells(left, id, user) =>
                     (Ends(left, Telling(id, user), Making(id, user))
                         <=> Expected(id, user)')
              /\ left[1].do # "find"
      BY <1>1, <3>2, <3>3, <3>4, <3>5, <3>6
    <3> QED  BY <3>7
  <2>2. CASE todo = <<came>>
    <3>1. todo[1].do = "publish" /\ Tail(todo) = <<>>
      BY <2>2, Rests, StepFields
    <3>2. left = <<>>
      BY <3>1 DEF Effect
    <3> QED  BY <3>1, <3>2, TellsNothing
  <2> QED  BY <1>2, <2>1, <2>2 DEF Plain, Creates, Removes
<1>3. CASE Removes(q)
  <2>1. CASE todo = <<leave(q.id), gone>>
    <3>1. todo[1] = leave(q.id) /\ Tail(todo) = <<gone>>
      BY <2>1, Rests
    <3>2. /\ left = <<gone>> /\ UNCHANGED connectedUsers
          /\ serving' = [op |-> "leave", id |-> q.id]
          /\ todo[1].do = "leave"
      BY <3>1, LeaveFields DEF Effect
    <3>3. q.id \in NodeID
      BY <1>3, PlainFields
    <3>4. /\ serving' \in Request /\ serving'.op = "leave"
          /\ About(serving') = {q.id}
      <4>1. serving' \in Request /\ serving'.op = "leave" /\ serving'.id = q.id
        BY <3>2, <3>3 DEF Request
      <4> QED  BY <4>1, AboutRequest
    <3>5. serving = Nothing
      BY <3>2
    <3>6. /\ gone \in Step /\ gone.do = "publish"
          /\ \A id \in NodeID, user \in Marks :
                /\ gone \in Telling(id, user) <=> id = q.id
                /\ gone \notin Making(id, user)
      BY <1>3, <3>3, PlainEvents DEF Marks
    <3> HIDE DEF gone
    <3>7. \A id \in NodeID, user \in Marks :
              /\ (Expected(id, user)' <=> Expected(id, user)) \/ Tells(left, id, user)
              /\ Tells(left, id, user) =>
                     (Ends(left, Telling(id, user), Making(id, user))
                         <=> Expected(id, user)')
              /\ left[1].do # "find"
      BY <1>1, <3>2, <3>3, <3>4, <3>5, <3>6
    <3> QED  BY <3>7
  <2>2. CASE todo = <<gone>>
    <3>1. todo[1].do = "publish" /\ Tail(todo) = <<>>
      BY <2>2, Rests, StepFields
    <3>2. left = <<>>
      BY <3>1 DEF Effect
    <3> QED  BY <3>1, <3>2, TellsNothing
  <2> QED  BY <1>3, <2>1, <2>2 DEF Plain, Creates, Removes
<1>4. CASE ~Creates(q) /\ ~Removes(q)
  <2>1. \A k \in DOMAIN todo :
            \/ todo[k].do \in {"find", "send"}
            \/ /\ todo[k].do = "publish"
               /\ todo[k].event.type \in {"MOVED_NODE", "COMMAND_RECEIVED"}
    BY <1>4 DEF Plain
  <2>2. 1 \in DOMAIN todo
    OBVIOUS
  <2>3. UNCHANGED <<connectedUsers, serving>> /\ left \in {<<>>, Tail(todo)}
    BY <2>1, <2>2 DEF Effect
  <2>4. \A k \in DOMAIN left : k + 1 \in DOMAIN todo /\ left[k] = todo[k + 1]
    BY <2>3
  <2>5. \A id, user : ~Tells(left, id, user)
    <3>1. \A k \in DOMAIN left :
              \/ left[k].do \in {"find", "send"}
              \/ /\ left[k].do = "publish"
                 /\ left[k].event.type \in {"MOVED_NODE", "COMMAND_RECEIVED"}
      BY <2>1, <2>4
    <3> QED  BY <3>1, QuietTells
  <2> QED  BY <2>3, <2>5, ExpectedSame
<1> QED  BY <1>2, <1>3, <1>4

\* A handler tells of nothing but the nodes and the user of its request.
LEMMA EventsAbout ==
    ASSUME NEW q \in Call, NEW todo, NEW found,
           IF Edits(q) THEN Stage(q, todo, found) ELSE Plain(q, todo),
           NEW k \in DOMAIN todo, todo[k].do = "publish",
           todo[k].event.type \notin {"MOVED_NODE", "COMMAND_RECEIVED"}
    PROVE  /\ todo[k].event.id \in About(q)
           /\ todo[k].event.type = "CREATE_USER" => todo[k].event.user \in User
<1> DEFINE created == publish("CREATE_USER", q.id, q.user)
           deleted == publish("DELETE_USER", q.id, q.user)
           moved   == publish("CREATE_USER", q.other, q.user)
           came    == publish("NODE_JOINED", IDOf[q.node], NoUser)
           gone    == publish("NODE_LEFT", q.id, NoUser)
<1>1. CASE Edits(q)
  <2>1. /\ q.id \in About(q) /\ q.user \in User
        /\ q.op = "moveUser" => q.other \in About(q)
    BY <1>1, EditFields
  <2>2. /\ created.event.id = q.id /\ created.event.user = q.user
        /\ deleted.event.id = q.id /\ deleted.event.user = q.user
        /\ moved.event.id = q.other /\ moved.event.user = q.user
    BY DEF publish
  <2> DEFINE x1 == find(q.id)
             x2 == find(q.other)
             x3 == add(1, q.user)
             x4 == remove(1, q.user)
             x5 == add(2, q.user)
             Idle == {x1, x2, x3, x4, x5}
  <2>3. \A s \in Idle : s.do # "publish"
    BY StepFields
  <2> HIDE DEF created, deleted, moved, x1, x2, x3, x4, x5
  <2>4. \/ todo \in {<<x1, x3, created>>, <<x3, created>>, <<created>>}
        \/ todo \in {<<x1, x4, deleted>>, <<x4, deleted>>, <<deleted>>}
        \/ /\ q.op = "moveUser"
           /\ todo \in {<<x1, x2, x4, x5, deleted, moved>>,
                        <<x2, x4, x5, deleted, moved>>, <<x4, x5, deleted, moved>>,
                        <<x5, deleted, moved>>, <<deleted, moved>>, <<moved>>}
    BY <1>1 DEF Stage, created, deleted, moved, x1, x2, x3, x4, x5
  <2>5. CASE todo \in {<<x1, x3, created>>, <<x3, created>>, <<created>>}
    <3>1. todo[k] \in Idle \cup {created}
      BY <2>5
    <3> QED  BY <2>1, <2>2, <2>3, <3>1
  <2>6. CASE todo \in {<<x1, x4, deleted>>, <<x4, deleted>>, <<deleted>>}
    <3>1. todo[k] \in Idle \cup {deleted}
      BY <2>6
    <3> QED  BY <2>1, <2>2, <2>3, <3>1
  <2>7. CASE /\ q.op = "moveUser"
             /\ todo \in {<<x1, x2, x4, x5, deleted, moved>>,
                          <<x2, x4, x5, deleted, moved>>, <<x4, x5, deleted, moved>>,
                          <<x5, deleted, moved>>, <<deleted, moved>>, <<moved>>}
    <3>1. todo[k] \in Idle \cup {deleted, moved}
      BY <2>7
    <3> QED  BY <2>1, <2>2, <2>3, <2>7, <3>1
  <2> QED  BY <2>4, <2>5, <2>6, <2>7
<1>2. CASE ~Edits(q)
  <2>1. /\ Creates(q) => About(q) = {IDOf[q.node]}
        /\ Removes(q) => About(q) = {q.id}
    BY PlainFields
  <2>2. /\ came.event.id = IDOf[q.node] /\ came.event.type = "NODE_JOINED"
        /\ gone.event.id = q.id /\ gone.event.type = "NODE_LEFT"
    BY DEF publish
  <2> DEFINE x1 == join(q.node)
             x2 == leave(q.id)
  <2>3. x1.do # "publish" /\ x2.do # "publish"
    BY JoinFields, LeaveFields
  <2> HIDE DEF came, gone, x1, x2
  <2>4. \/ Creates(q) /\ todo \in {<<x1, came>>, <<came>>, <<>>}
        \/ Removes(q) /\ todo \in {<<x2, gone>>, <<gone>>, <<>>}
        \/ todo[k].do \in {"find", "send"}
        \/ todo[k].event.type \in {"MOVED_NODE", "COMMAND_RECEIVED"}
    BY <1>2 DEF Plain, came, gone, x1, x2
  <2>5. CASE Creates(q) /\ todo \in {<<x1, came>>, <<came>>, <<>>}
    <3>1. todo[k] \in {x1, came}
      BY <2>5
    <3> QED  BY <2>1, <2>2, <2>3, <2>5, <3>1
  <2>6. CASE Removes(q) /\ todo \in {<<x2, gone>>, <<gone>>, <<>>}
    <3>1. todo[k] \in {x2, gone}
      BY <2>6
    <3> QED  BY <2>1, <2>2, <2>3, <2>6, <3>1
  <2> QED  BY <2>4, <2>5, <2>6
<1> QED  BY <1>1, <1>2

LEMMA TellsAbout ==
    ASSUME NEW q \in Call, NEW todo, NEW found,
           IF Edits(q) THEN Stage(q, todo, found) ELSE Plain(q, todo),
           NEW id \in NodeID, NEW user \in Marks, Tells(todo, id, user)
    PROVE  id \in About(q)
<1>1. PICK k \in DOMAIN todo : todo[k] \in Telling(id, user)
  BY DEF Tells, Silent
<1>2. /\ todo[k].do = "publish" /\ todo[k].event.id = id
      /\ todo[k].event.type \notin {"MOVED_NODE", "COMMAND_RECEIVED"}
  BY <1>1 DEF Telling, News
<1> QED  BY <1>2, EventsAbout

----------------------------------------------------------------------------
(* The front end and the handlers                                          *)

\* As long as every request was orderly: a handler that is telling what it did
\* ends with what is so; what no handler is yet to tell is shown, or will be when
\* the channel is read, unless an event was missed; and only users are shown.
TellTruth ==
    \A i \in DOMAIN handlers : \A todo \in {handlers[i].todo} :
        todo[1].do = "publish" =>
            \A id \in NodeID, user \in Marks : Told(todo, id, user)

Agree ==
    \A id \in NodeID, user \in Marks :
        (\A i \in DOMAIN handlers : ~Owes(handlers[i].todo, id, user)) =>
            (WillShow(id, user) <=> Expected(id, user))

RealUsers ==
    /\ shownUsers \subseteq NodeID \X User
    /\ \A k \in DOMAIN channels[1] :
          channels[1][k].type = "CREATE_USER" => channels[1][k].user \in User

FrontInv ==
    /\ run # "off" => sockets = <<>>
    /\ run = "off" =>
          /\ sockets # <<>>
          /\ ~raced => TellTruth /\ RealUsers /\ (Informed => Agree)

LEMMA SocketsHaveChannels ==
    ASSUME TypeOK, sockets # <<>>
    PROVE  /\ BusTypeOK /\ channels # <<>> /\ 1 \in DOMAIN channels
           /\ channels[1] \in Seq(Event) /\ 1 \in DOMAIN sockets
<1>1. /\ BusTypeOK /\ sockets \in Seq(BOOLEAN) /\ Len(sockets) <= Len(channels)
      /\ channels \in Seq(Seq(Event))
  BY DEF TypeOK, ServerTypeOK, RegistryTypeOK, BusTypeOK
<1>2. Len(sockets) \in Nat /\ Len(sockets) # 0 /\ Len(channels) \in Nat
  BY <1>1
<1> QED  BY <1>1, <1>2

\* A step that changes neither handlers nor what is expected, and leaves the
\* front end and its channel alone.
LEMMA FrontFrame ==
    ASSUME FrontInv, UNCHANGED <<handlers, sockets, raced, run, shownNodes,
                                 shownUsers, channels, lost>>,
           run = "off" /\ ~raced => \A id \in NodeID, user \in Marks :
               Expected(id, user)' <=> Expected(id, user)
    PROVE  FrontInv'
<1>1. CASE run # "off" \/ raced
  BY <1>1 DEF FrontInv
<1>2. CASE run = "off" /\ ~raced
  <2>1. TellTruth /\ RealUsers /\ (Informed => Agree) /\ sockets # <<>>
    BY <1>2 DEF FrontInv
  <2>2. TellTruth'
    BY <1>2, <2>1 DEF TellTruth, Told
  <2>3. RealUsers'
    BY <2>1 DEF RealUsers
  <2>4. ASSUME Informed' PROVE Agree'
    <3>1. Informed
      BY <2>4 DEF Informed
    <3>2. \A id \in NodeID, user \in Marks : WillShow(id, user)' <=> WillShow(id, user)
      BY DEF WillShow, Shows
    <3> QED  BY <1>2, <2>1, <3>1, <3>2 DEF Agree
  <2> QED  BY <1>2, <2>1, <2>2, <2>3, <2>4 DEF FrontInv
<1> QED  BY <1>1, <1>2

\* When the network goroutine acts, what was expected of it is so.
LEMMA NetworkExpected ==
    ASSUME ProgramsInv, NewIsEmpty, NetworkGoroutine, UNCHANGED connectedUsers
    PROVE  \A id \in NodeID, user \in Marks : Expected(id, user)' <=> Expected(id, user)
<1>0. /\ RegistryTypeOK /\ ServerTypeOK /\ MapInv /\ FleetInv
      /\ Nodes \in [NodeID -> Object \cup {NoObject}] /\ NoObject \notin Object
      /\ connectedUsers \in [Object -> SUBSET User]
  BY RegistryAssumption
     DEF ProgramsInv, TypeOK, RegistryTypeOK, ServerTypeOK, RegistryAssumption
<1> SUFFICES ASSUME NEW id \in NodeID, NEW user \in Marks
             PROVE  Expected(id, user)' <=> Expected(id, user)
  OBVIOUS
<1>1. CASE addNode
  <2>1. /\ serving.op = "join" /\ serving \in Request /\ serving # Nothing
        /\ serving.node \in Object /\ IDOf[serving.node] \in NodeID
    <3>1. serving.op = "join" /\ serving.node \in Object /\ IDOf[serving.node] \in NodeID
      BY <1>0, <1>1, ServedObject DEF addNode
    <3> QED  BY <1>0, <3>1 DEF RegistryTypeOK, Nothing
  <2>2. About(serving) = {IDOf[serving.node]}
    BY <2>1, AboutRequest
  <2>3. /\ Nodes' = [Nodes EXCEPT ![IDOf[serving.node]] = serving.node]
        /\ serving' = Nothing
    BY <1>1 DEF addNode
  <2>4. connectedUsers[serving.node] = {}
    BY <1>0, <2>1 DEF FleetInv, NewIsEmpty
  <2>5. CASE id = IDOf[serving.node]
    <3>1. Nodes'[id] = serving.node /\ usersAt(id)' = {}
      BY <1>0, <2>1, <2>3, <2>4, <2>5 DEF usersAt
    <3> QED  BY <1>0, <2>1, <2>2, <2>3, <2>5, <3>1 DEF Expected
  <2>6. CASE id # IDOf[serving.node]
    <3>1. Nodes'[id] = Nodes[id] /\ usersAt(id)' = usersAt(id)
      BY <1>0, <2>3, <2>6 DEF usersAt
    <3> QED  BY <2>2, <2>3, <2>6, <3>1 DEF Expected
  <2> QED  BY <2>5, <2>6
<1>2. CASE removeNode
  <2>1. /\ serving.id \in NodeID /\ serving \in Request /\ serving # Nothing
        /\ serving.op = "leave"
    <3>1. serving.op = "leave" /\ serving.id \in NodeID
      BY <1>0, <1>2, ServedIdentifier DEF removeNode
    <3> QED  BY <1>0, <3>1 DEF RegistryTypeOK, Nothing
  <2>2. About(serving) = {serving.id}
    BY <2>1, AboutRequest
  <2>3. Nodes' = [Nodes EXCEPT ![serving.id] = NoObject] /\ serving' = Nothing
    <3>1. CASE Nodes[serving.id] = NoObject
      BY <1>0, <1>2, <3>1 DEF removeNode
    <3>2. CASE Nodes[serving.id] # NoObject
      <4>1. Nodes[serving.id] \notin told
        BY <1>0, <2>1, <3>2 DEF MapInv
      <4> QED  BY <1>2, <3>2, <4>1 DEF removeNode
    <3> QED  BY <3>1, <3>2
  <2>4. CASE id = serving.id
    <3>1. Nodes'[id] = NoObject /\ usersAt(id)' = {}
      BY <1>0, <2>3, <2>4 DEF usersAt
    <3> QED  BY <1>0, <2>1, <2>2, <2>3, <2>4, <3>1 DEF Expected
  <2>5. CASE id # serving.id
    <3>1. Nodes'[id] = Nodes[id] /\ usersAt(id)' = usersAt(id)
      BY <1>0, <2>3, <2>5 DEF usersAt
    <3> QED  BY <2>2, <2>3, <2>5, <3>1 DEF Expected
  <2> QED  BY <2>4, <2>5
<1> QED  BY <1>1, <1>2 DEF NetworkGoroutine

LEMMA BatchStays ==
    ASSUME run # "off", RunnerNext
    PROVE  run' # "off"
<1>1. CASE Run
  BY <1>1 DEF Run, StartRun, JoinNext, startFailureSimulator, AfterQuit, LeaveAll,
              ReturnRun
<1>2. CASE triggerStart \/ startTrafficGenerator \/ consumeEvents
  BY <1>2 DEF triggerStart, startTrafficGenerator, BeginTraffic, LoopTraffic,
              SelectTraffic, emitRandomTraffic, consumeEvents
<1>3. CASE \E type \in {"MESSAGE_SENT", "MESSAGE_DELIVERED"} : RouterPublishes(type)
  BY <1>3 DEF RouterPublishes
<1>4. CASE FailureSimulator \/ Stop \/ Flush
  BY <1>4 DEF FailureSimulator, PickVictim, RemoveVictim, Stop, Flush, runner
<1> QED  BY <1>1, <1>2, <1>3, <1>4 DEF RunnerNext

LEMMA HandleShows ==
    ASSUME BusTypeOK, ServerTypeOK, channels # <<>>, NEW i \in DOMAIN handlers,
           Handle(i), Informed', NEW todo, todo = handlers[i].todo
    PROVE  /\ Informed
           /\ \A id \in NodeID, user \in Marks :
                 WillShow(id, user)' <=>
                    \/ todo[1] \in Making(id, user)
                    \/ todo[1] \notin Telling(id, user) /\ WillShow(id, user)
<1>1. /\ todo \in Seq(Step) /\ todo # <<>> /\ todo[1] \in Step
      /\ Head(handlers[i].todo) = todo[1]
  <2>1. todo \in Seq(Step) /\ todo # <<>>
    BY HandlerFields
  <2> QED  BY <2>1
<1>2. UNCHANGED <<sockets, shownNodes, shownUsers>>
  BY DEF Handle
<1>3. ASSUME UNCHANGED bus
      PROVE  /\ Informed
             /\ \A id \in NodeID, user \in Marks :
                   WillShow(id, user)' <=> WillShow(id, user)
  BY <1>2, <1>3 DEF bus, Informed, WillShow, Shows
<1>4. \A id, user : Making(id, user) \subseteq Telling(id, user)
  BY MakingTells
<1>5. CASE todo[1].do = "publish"
  <2>1. PICK e : e = todo[1].event
    OBVIOUS
  <2>2. e \in Event
    <3>1. todo[1] \in [do : {"publish"}, event : Event]
      BY <1>1, <1>5 DEF Step
    <3> QED  BY <2>1, <3>1
  <2>3. Publish(e)
    BY <1>1, <1>5, <2>1 DEF Handle
  <2>4. /\ Informed
        /\ \A id \in NodeID, user \in Marks :
              WillShow(id, user)' <=>
                  IF e \in News(id, user) THEN e \in Good(id, user)
                  ELSE WillShow(id, user)
    BY <1>2, <2>2, <2>3, PublishShows
  <2>5. \A id, user : /\ todo[1] \in Telling(id, user) <=> e \in News(id, user)
                      /\ todo[1] \in Making(id, user) <=> e \in Good(id, user)
    BY <1>1, <1>5, <2>1 DEF Telling, Making
  <2>6. \A id, user : Good(id, user) \subseteq News(id, user)
    BY DEF Good
  <2> QED  BY <2>4, <2>5, <2>6
<1>6. CASE todo[1].do # "publish"
  <2>1. \A id, user : todo[1] \notin Telling(id, user)
    BY <1>6 DEF Telling
  <2>2. CASE UNCHANGED bus
    BY <1>3, <1>4, <2>1, <2>2
  <2>3. CASE ~UNCHANGED bus
    <3>1. PICK e : e = [type |-> "MESSAGE_SENT", id |-> todo[1].id, user |-> NoUser]
      OBVIOUS
    <3>2. todo[1].do = "send" /\ Publish(e)
      BY <1>1, <1>6, <2>3, <3>1 DEF Handle
    <3>3. e \in Event /\ e.type = "MESSAGE_SENT"
      <4>1. todo[1] \in [do : {"leave", "find", "send"}, id : NodeID]
        BY <1>1, <3>2 DEF Step
      <4> QED  BY <3>1, <4>1 DEF Event, EventType
    <3>4. \A id, user : e \notin News(id, user)
      BY <3>3 DEF News
    <3>5. /\ Informed
          /\ \A id \in NodeID, user \in Marks :
                WillShow(id, user)' <=>
                    IF e \in News(id, user) THEN e \in Good(id, user)
                    ELSE WillShow(id, user)
      BY <1>2, <3>2, <3>3, PublishShows
    <3> QED  BY <1>4, <2>1, <3>4, <3>5
  <2> QED  BY <2>2, <2>3
<1> QED  BY <1>5, <1>6

LEMMA RealAppend ==
    ASSUME BusTypeOK, channels # <<>>, NEW e \in Event, Publish(e), RealUsers,
           UNCHANGED shownUsers, e.type = "CREATE_USER" => e.user \in User
    PROVE  RealUsers'
<1>1. 1 \in DOMAIN channels /\ channels[1] \in Seq(Event)
  BY DEF BusTypeOK
<1>2. channels'[1] = channels[1] \/ channels'[1] = Append(channels[1], e)
  BY <1>1 DEF Publish
<1>3. CASE channels'[1] = channels[1]
  BY <1>3 DEF RealUsers
<1>4. CASE channels'[1] = Append(channels[1], e)
  <2>1. \A k \in DOMAIN channels'[1] :
            \/ k \in DOMAIN channels[1] /\ channels'[1][k] = channels[1][k]
            \/ channels'[1][k] = e
    BY <1>1, <1>4
  <2> QED  BY <2>1 DEF RealUsers
<1> QED  BY <1>2, <1>3, <1>4

LEMMA HandleReal ==
    ASSUME BusTypeOK, ServerTypeOK, channels # <<>>, NEW i \in DOMAIN handlers,
           Handle(i), RealUsers, NEW todo, todo = handlers[i].todo,
           todo[1].do = "publish" /\ todo[1].event.type = "CREATE_USER" =>
               todo[1].event.user \in User
    PROVE  RealUsers'
<1>1. /\ todo \in Seq(Step) /\ todo # <<>> /\ todo[1] \in Step
      /\ Head(handlers[i].todo) = todo[1]
  <2>1. todo \in Seq(Step) /\ todo # <<>>
    BY HandlerFields
  <2> QED  BY <2>1
<1>2. UNCHANGED shownUsers
  BY DEF Handle
<1>3. CASE todo[1].do = "publish"
  <2>1. todo[1] \in [do : {"publish"}, event : Event]
    BY <1>1, <1>3 DEF Step
  <2>2. todo[1].event \in Event
    BY <2>1
  <2>3. Publish(todo[1].event)
    BY <1>1, <1>3 DEF Handle
  <2> QED  BY <1>2, <1>3, <2>2, <2>3, RealAppend
<1>4. CASE todo[1].do # "publish" /\ ~UNCHANGED bus
  <2>1. PICK e : e = [type |-> "MESSAGE_SENT", id |-> todo[1].id, user |-> NoUser]
    OBVIOUS
  <2>2. todo[1].do = "send" /\ Publish(e)
    BY <1>1, <1>4, <2>1 DEF Handle
  <2>3. e \in Event /\ e.type = "MESSAGE_SENT"
    <3>1. todo[1] \in [do : {"leave", "find", "send"}, id : NodeID]
      BY <1>1, <2>2 DEF Step
    <3> QED  BY <2>1, <3>1 DEF Event, EventType
  <2> QED  BY <1>2, <2>2, <2>3, RealAppend
<1>5. CASE UNCHANGED bus
  BY <1>2, <1>5 DEF bus, RealUsers
<1> QED  BY <1>3, <1>4, <1>5

\* A step changes nothing that is expected but what its handler is yet to tell,
\* and when the handler starts to tell, that has become right.
TellsRight(todo, left) ==
    \A id \in NodeID, user \in Marks :
        /\ \/ Expected(id, user)' <=> Expected(id, user)
           \/ todo[1].do \notin {"find", "publish"} /\ Tells(left, id, user)
        /\ left # <<>> /\ left[1].do = "publish" /\ todo[1].do # "publish" =>
              (Tells(left, id, user) =>
                  (Ends(left, Telling(id, user), Making(id, user))
                      <=> Expected(id, user)'))
        /\ todo[1].do # "find" /\ Tells(left, id, user) => left[1].do # "find"

LEMMA HandlerTells ==
    ASSUME TypeOK, MapInv, UNCHANGED <<Nodes, goroutine>>,
           NEW q \in Call, NEW todo \in Seq(Step), todo # <<>>, NEW found,
           IF Edits(q) THEN Stage(q, todo, found) ELSE Plain(q, todo),
           NEW left, NEW known, Effect(todo, found, left, known),
           Edits(q) /\ serving # Nothing => About(serving) \cap About(q) = {},
           todo[1].do \in {"join", "leave"} => serving = Nothing
    PROVE  TellsRight(todo, left)
<1>1. \A id \in NodeID, user \in Marks :
          /\ todo[1].do \notin {"find", "publish"} =>
                \/ Expected(id, user)' <=> Expected(id, user)
                \/ Tells(left, id, user)
          /\ left # <<>> /\ left[1].do = "publish" /\ todo[1].do # "publish" =>
                (Tells(left, id, user) =>
                    (Ends(left, Telling(id, user), Making(id, user))
                        <=> Expected(id, user)'))
          /\ todo[1].do # "find" /\ Tells(left, id, user) => left[1].do # "find"
  <2>1. CASE Edits(q)
    <3>1. /\ \A id \in NodeID, user \in Marks :
                /\ todo[1].do \notin {"find", "publish"} =>
                      \/ Expected(id, user)' <=> Expected(id, user)
                      \/ Tells(left, id, user)
                /\ left # <<>> /\ left[1].do = "publish" /\ todo[1].do # "publish" =>
                      (Tells(left, id, user) =>
                          (Ends(left, Telling(id, user), Making(id, user))
                              <=> Expected(id, user)'))
          /\ todo[1].do # "find" => left = <<>> \/ left[1].do # "find"
      BY <2>1, EditTells
    <3> QED  BY <3>1, TellsNothing
  <2>2. CASE ~Edits(q)
    BY <2>2, PlainTells
  <2> QED  BY <2>1, <2>2
<1>2. ASSUME todo[1].do \in {"find", "publish"}
      PROVE  \A id \in NodeID, user \in Marks :
                 Expected(id, user)' <=> Expected(id, user)
  <2>1. UNCHANGED <<connectedUsers, serving>>
    BY <1>2 DEF Effect
  <2> QED  BY <2>1, ExpectedSame
<1> QED  BY <1>1, <1>2 DEF TellsRight

LEMMA EndsTells ==
    ASSUME NEW todo, NEW id, NEW user,
           Ends(todo, Telling(id, user), Making(id, user))
    PROVE  Tells(todo, id, user)
BY MakingTells DEF Ends, Tells, Silent

LEMMA HandleFront ==
    ASSUME ProgramsInv, UsersInv, FrontInv, NEW i, Handle(i), run = "off",
           UNCHANGED run
    PROVE  FrontInv'
<1>0. /\ TypeOK /\ RegistryTypeOK /\ BusTypeOK /\ ServerTypeOK /\ MapInv
      /\ sockets # <<>>
  BY DEF ProgramsInv, TypeOK, RegistryTypeOK, FrontInv
<1>1. /\ i \in DOMAIN handlers
      /\ UNCHANGED <<Nodes, goroutine, raced, sockets, shownNodes, shownUsers>>
  BY <1>0, HandleEffect DEF Handle
<1>2. CASE raced
  BY <1>0, <1>1, <1>2 DEF FrontInv
<1>3. CASE ~raced
  <2>0. /\ Apart /\ LeftAlone /\ Staged
        /\ TellTruth /\ RealUsers /\ (Informed => Agree)
    BY <1>3 DEF UsersInv, FrontInv
  <2>1. PICK q \in Call, todo \in Seq(Step), found \in Seq(Object) :
            /\ q = handlers[i].request /\ todo = handlers[i].todo /\ todo # <<>>
            /\ found = handlers[i].found
    BY <1>0, <1>1, HandlerFields
  <2>2. PICK left, known : Advance(i, known, left) /\ Effect(todo, found, left, known)
    BY <1>0, <2>1, HandleEffect
  <2>3. PICK from \in [DOMAIN handlers' -> DOMAIN handlers] :
            /\ \A j \in DOMAIN handlers' :
                  IF from[j] = i
                  THEN /\ left # <<>>
                       /\ handlers'[j].request = q /\ handlers'[j].todo = left
                  ELSE handlers'[j] = handlers[from[j]]
            /\ \A k \in DOMAIN handlers : k # i \/ left # <<>> =>
                  \E j \in DOMAIN handlers' : from[j] = k
    <3>1. handlers \in Seq(Handler)
      BY <1>0 DEF ServerTypeOK
    <3>2. PICK from \in [DOMAIN handlers' -> DOMAIN handlers] :
              /\ \A j, k \in DOMAIN handlers' : from[j] = from[k] => j = k
              /\ \A j \in DOMAIN handlers' :
                    IF from[j] = i
                    THEN /\ left # <<>>
                         /\ handlers'[j].request = handlers[i].request
                         /\ handlers'[j].todo = left
                         /\ handlers'[j].found = known
                    ELSE handlers'[j] = handlers[from[j]]
              /\ \A k \in DOMAIN handlers : k # i \/ left # <<>> =>
                    \E j \in DOMAIN handlers' : from[j] = k
      BY <1>1, <2>2, <3>1, AdvancedTo
    <3> QED  BY <2>1, <3>2
  <2>4. IF Edits(q) THEN Stage(q, todo, found) ELSE Plain(q, todo)
    BY <1>1, <2>0, <2>1 DEF Staged
  <2>5. todo[1].do \in {"join", "leave"} => serving = Nothing
    <3>1. Head(handlers[i].todo) = todo[1]
      BY <2>1
    <3> QED  BY <3>1 DEF Handle, Ask
  <2>6. TellsRight(todo, left)
    <3>1. Edits(q) /\ serving # Nothing => About(serving) \cap About(q) = {}
      BY <1>1, <2>0, <2>1 DEF LeftAlone
    <3>2. TypeOK /\ MapInv /\ UNCHANGED <<Nodes, goroutine>>
      BY <1>0, <1>1
    <3>3. /\ q \in Call /\ todo \in Seq(Step) /\ todo # <<>>
          /\ Effect(todo, found, left, known)
      BY <2>1, <2>2
    <3> QED  BY <2>4, <2>5, <3>1, <3>2, <3>3, HandlerTells
  <2>7. /\ left = <<>> \/ left = Tail(todo)
        /\ todo[1].do # "find" => left = Tail(todo)
    BY <2>2 DEF Effect
  <2>8. \A id \in NodeID, user \in Marks :
            (Expected(id, user)' <=> Expected(id, user)) \/ id \in About(q)
    <3> SUFFICES ASSUME NEW id \in NodeID, NEW user \in Marks, Tells(left, id, user)
                 PROVE  id \in About(q)
      BY <2>6 DEF TellsRight
    <3>1. left # <<>>
      BY TellsNothing
    <3>2. left = Tail(todo) /\ Tells(Tail(todo), id, user)
      BY <2>7, <3>1
    <3>3. Tells(todo, id, user)
      BY <2>1, <3>2, TellsFirst
    <3> QED  BY <2>4, <3>3, TellsAbout
  <2>9. TellTruth'
    <3> SUFFICES ASSUME NEW j \in DOMAIN handlers', NEW more, more = handlers'[j].todo,
                        more[1].do = "publish", NEW id \in NodeID, NEW user \in Marks,
                        Tells(more, id, user)
                 PROVE  Ends(more, Telling(id, user), Making(id, user))
                            <=> Expected(id, user)'
      BY DEF TellTruth, Told
    <3>1. CASE from[j] = i
      <4>1. more = left /\ left # <<>>
        BY <2>3, <3>1
      <4>2. CASE todo[1].do # "publish"
        BY <2>6, <4>1, <4>2 DEF TellsRight
      <4>3. CASE todo[1].do = "publish"
        <5>1. Told(todo, id, user)
          BY <1>1, <2>0, <2>1, <4>3 DEF TellTruth
        <5>2. more = Tail(todo) /\ (Expected(id, user)' <=> Expected(id, user))
          BY <2>6, <2>7, <4>1, <4>3 DEF TellsRight
        <5>3. /\ Tells(todo, id, user)
              /\ Ends(todo, Telling(id, user), Making(id, user)) <=>
                    Ends(more, Telling(id, user), Making(id, user))
          BY <2>1, <5>2, TellsFirst
        <5> QED  BY <5>1, <5>2, <5>3 DEF Told
      <4> QED  BY <4>2, <4>3
    <3>2. CASE from[j] # i
      <4>1. PICK k \in DOMAIN handlers : k = from[j]
        BY <2>3
      <4>2. PICK p \in Call : p = handlers[k].request
        BY <1>0, HandlerFields
      <4>3. PICK seen : seen = handlers[k].found
        OBVIOUS
      <4>4. more = handlers[k].todo
        BY <2>3, <3>2, <4>1
      <4>5. Told(more, id, user)
        BY <2>0, <4>4 DEF TellTruth
      <4>6. IF Edits(p) THEN Stage(p, more, seen) ELSE Plain(p, more)
        BY <2>0, <4>2, <4>4, <4>3 DEF Staged
      <4>7. id \in About(p)
        BY <4>6, TellsAbout
      <4>8. About(p) \cap About(q) = {}
        BY <1>1, <2>0, <2>1, <3>2, <4>1, <4>2 DEF Apart
      <4>9. Expected(id, user)' <=> Expected(id, user)
        BY <2>8, <4>7, <4>8
      <4> QED  BY <4>5, <4>9 DEF Told
    <3> QED  BY <3>1, <3>2
  <2>10. RealUsers'
    <3>1. 1 \in DOMAIN todo /\ channels # <<>>
      BY <1>0, <2>1, SocketsHaveChannels
    <3>2. todo[1].do = "publish" /\ todo[1].event.type = "CREATE_USER" =>
              todo[1].event.user \in User
      BY <2>4, <3>1, EventsAbout
    <3> QED  BY <1>0, <1>1, <2>0, <2>1, <3>1, <3>2, HandleReal
  <2>11. ASSUME Informed' PROVE Agree'
    <3>1. channels # <<>>
      BY <1>0, SocketsHaveChannels
    <3>2. /\ Agree
          /\ \A id \in NodeID, user \in Marks :
                WillShow(id, user)' <=>
                   \/ todo[1] \in Making(id, user)
                   \/ todo[1] \notin Telling(id, user) /\ WillShow(id, user)
      BY <1>0, <1>1, <2>0, <2>1, <2>11, <3>1, HandleShows
    <3> SUFFICES ASSUME NEW id \in NodeID, NEW user \in Marks,
                        \A j \in DOMAIN handlers' : ~Owes(handlers'[j].todo, id, user)
                 PROVE  WillShow(id, user)' <=> Expected(id, user)'
      BY DEF Agree
    <3>3. \A k \in DOMAIN handlers : k # i => ~Owes(handlers[k].todo, id, user)
      BY <2>3
    <3>4. left # <<>> => ~Owes(left, id, user)
      BY <1>1, <2>3
    <3>5. ~Owes(todo, id, user) => (WillShow(id, user) <=> Expected(id, user))
      BY <2>1, <3>2, <3>3 DEF Agree
    <3>6. CASE todo[1].do = "find"
      <4>1. ~Owes(todo, id, user)
        BY <3>6 DEF Owes
      <4>2. todo[1] \notin Telling(id, user) /\ todo[1] \notin Making(id, user)
        BY <3>6 DEF Telling, Making
      <4> QED  BY <2>6, <3>2, <3>5, <3>6, <4>1, <4>2 DEF TellsRight
    <3>7. CASE todo[1].do # "find"
      <4>1. ~Tells(left, id, user)
        BY <2>6, <3>4, <3>7, TellsNothing DEF Owes, TellsRight
      <4>2. Expected(id, user)' <=> Expected(id, user)
        BY <2>6, <4>1 DEF TellsRight
      <4>3. /\ left = Tail(todo)
            /\ ~Ends(left, Telling(id, user), Making(id, user))
        BY <2>7, <3>7, <4>1, EndsTells
      <4>4. /\ Tells(todo, id, user) <=> todo[1] \in Telling(id, user)
            /\ Ends(todo, Telling(id, user), Making(id, user)) <=>
                  todo[1] \in Making(id, user)
        BY <2>1, <4>1, <4>3, TellsFirst
      <4>5. CASE todo[1] \in Telling(id, user)
        <5>1. todo[1].do = "publish"
          BY <4>5 DEF Telling
        <5>2. Told(todo, id, user)
          BY <1>1, <2>0, <2>1, <5>1 DEF TellTruth
        <5> QED  BY <3>2, <4>2, <4>4, <4>5, <5>2 DEF Told
      <4>6. CASE todo[1] \notin Telling(id, user)
        <5>1. ~Owes(todo, id, user) /\ todo[1] \notin Making(id, user)
          BY <4>4, <4>6, MakingTells DEF Owes
        <5> QED  BY <3>2, <3>5, <4>2, <4>6, <5>1
      <4> QED  BY <4>5, <4>6
    <3> QED  BY <3>6, <3>7
  <2> QED  BY <1>0, <1>1, <2>9, <2>10, <2>11 DEF FrontInv
<1> QED  BY <1>2, <1>3

\* A new handler has nothing to tell but that a command came.
LEMMA FirstSteps ==
    ASSUME NEW q \in Call, q.op # "ws", StepsOf(q)[1].do = "publish"
    PROVE  StepsOf(q) = <<publish("COMMAND_RECEIVED", q.id, NoUser)>>
<1>1. CASE q.op = "command"
  BY <1>1 DEF StepsOf, commandHandler
<1>2. CASE q.op \in {"createNode", "register"}
  <2>1. StepsOf(q)[1] = join(q.node)
    BY <1>2 DEF StepsOf, CreateNodeHandler, ProcessMqttNodeMessage
  <2> QED  BY <2>1, JoinFields
<1>3. CASE q.op \in {"removeNode", "remove"}
  <2>1. StepsOf(q)[1] = leave(q.id)
    BY <1>3 DEF StepsOf, RemoveNodeHandler, ProcessMqttNodeMessage
  <2> QED  BY <2>1, LeaveFields
<1>4. CASE q.op \in {"sendMessage", "moveNode", "createUser", "deleteUser",
                     "sendUserMessage", "moveUser"}
  <2>1. StepsOf(q)[1] = find(q.id)
    BY <1>4 DEF StepsOf, SendMessageHandler, MoveNodeHandler, CreateUser, DeleteUser,
                SendUserMessage, MoveUser
  <2> QED  BY <2>1, StepFields
<1>5. CASE q.op \in {"addUser", "removeUser"}
  <2>1. StepsOf(q)[1] \in {add(1, q.user), remove(1, q.user)}
    BY <1>5 DEF StepsOf, handleMQTTCommand
  <2> QED  BY <2>1, StepFields
<1> QED  BY <1>1, <1>2, <1>3, <1>4, <1>5, CallFields

LEMMA ReceiveFront ==
    ASSUME ProgramsInv, FrontInv, Receive, run = "off", UNCHANGED run
    PROVE  FrontInv'
<1>1. PICK q : q = Head(session)
  OBVIOUS
<1>2. q \in Call /\ q.op # "ws"
  <2>1. session \in Seq(Call) /\ session # <<>>
    BY DEF ProgramsInv, TypeOK, ServerTypeOK, Receive, Call
  <2> QED  BY <1>1, <2>1 DEF Receive
<1>3. PICK found : found = IF FromDevice(q) THEN <<topic[q.id]>> ELSE <<>>
  OBVIOUS
<1>4. PICK steps : steps = StepsOf(q)
  OBVIOUS
<1>5. /\ handlers' = Append(handlers, [request |-> q, todo |-> steps, found |-> found])
      /\ raced' = (raced \/ ~Orderly(q))
      /\ UNCHANGED <<Nodes, serving, connectedUsers, channels, lost, sockets,
                     shownNodes, shownUsers>>
  BY <1>1, <1>3, <1>4 DEF Receive, registry, bus
<1>6. PICK n : n = Len(handlers) + 1
  OBVIOUS
<1>7. /\ DOMAIN handlers' = DOMAIN handlers \cup {n}
      /\ \A j \in DOMAIN handlers : handlers'[j] = handlers[j]
      /\ handlers'[n].todo = steps
  <2>1. handlers \in Seq(Handler)
    BY DEF ProgramsInv, TypeOK, ServerTypeOK
  <2> QED  BY <1>5, <1>6, <2>1
<1>8. CASE raced'
  BY <1>5, <1>8 DEF FrontInv
<1>9. CASE ~raced'
  <2>1. TellTruth /\ RealUsers /\ (Informed => Agree) /\ sockets # <<>>
    BY <1>5, <1>9 DEF FrontInv
  <2>2. \A id \in NodeID, user \in Marks : Expected(id, user)' <=> Expected(id, user)
    BY <1>5, ExpectedSame
  <2>3. TellTruth'
    <3> SUFFICES ASSUME NEW j \in DOMAIN handlers', NEW more, more = handlers'[j].todo,
                        more[1].do = "publish", NEW id \in NodeID, NEW user \in Marks,
                        Tells(more, id, user)
                 PROVE  Ends(more, Telling(id, user), Making(id, user))
                            <=> Expected(id, user)'
      BY DEF TellTruth, Told
    <3>1. CASE j \in DOMAIN handlers
      <4>1. Told(more, id, user)
        BY <1>7, <2>1, <3>1 DEF TellTruth
      <4> QED  BY <2>2, <4>1 DEF Told
    <3>2. CASE j = n
      <4> DEFINE received == publish("COMMAND_RECEIVED", q.id, NoUser)
      <4>1. more = <<received>>
        BY <1>2, <1>4, <1>7, <3>2, FirstSteps
      <4>2. received.event.type = "COMMAND_RECEIVED" /\ received.do = "publish"
        BY DEF publish
      <4> HIDE DEF received
      <4>3. \A k \in DOMAIN more : more[k] = received
        BY <4>1
      <4>4. ~Tells(more, id, user)
        BY <4>2, <4>3, QuietTells
      <4> QED  BY <4>4
    <3> QED  BY <1>7, <3>1, <3>2
  <2>4. RealUsers'
    BY <1>5, <2>1 DEF RealUsers
  <2>5. ASSUME Informed' PROVE Agree'
    <3>1. Informed
      BY <1>5, <2>5 DEF Informed
    <3>2. \A id \in NodeID, user \in Marks : WillShow(id, user)' <=> WillShow(id, user)
      BY <1>5 DEF WillShow, Shows
    <3>3. \A id \in NodeID, user \in Marks :
              (\A j \in DOMAIN handlers' : ~Owes(handlers'[j].todo, id, user)) =>
                  (\A j \in DOMAIN handlers : ~Owes(handlers[j].todo, id, user))
      BY <1>7
    <3> QED  BY <2>1, <2>2, <3>1, <3>2, <3>3 DEF Agree
  <2> QED  BY <1>5, <2>1, <2>3, <2>4, <2>5 DEF FrontInv
<1> QED  BY <1>8, <1>9

\* A step of a subscriber: it changes neither handlers nor what is expected.
LEMMA SubscriberFront ==
    ASSUME TypeOK, FrontInv, run = "off",
           UNCHANGED <<handlers, raced, run, serving, Nodes, connectedUsers>>,
           sockets' # <<>>, RealUsers => RealUsers',
           Informed' => Informed /\ \A id \in NodeID, user \in Marks :
               WillShow(id, user)' <=> WillShow(id, user)
    PROVE  FrontInv'
<1>1. CASE raced
  BY <1>1 DEF FrontInv
<1>2. CASE ~raced
  <2>1. TellTruth /\ RealUsers /\ (Informed => Agree)
    BY <1>2 DEF FrontInv
  <2>2. \A id \in NodeID, user \in Marks : Expected(id, user)' <=> Expected(id, user)
    BY ExpectedSame
  <2>3. TellTruth'
    BY <2>1, <2>2 DEF TellTruth, Told
  <2>4. Informed' => Agree'
    BY <2>1, <2>2 DEF Agree
  <2> QED  BY <2>1, <2>3, <2>4 DEF FrontInv
<1> QED  BY <1>1, <1>2

LEMMA ConnectFront ==
    ASSUME TypeOK, FrontInv, ConnectSocket, run = "off", UNCHANGED run
    PROVE  FrontInv'
<1>1. /\ sockets # <<>> /\ sockets \in Seq(BOOLEAN) /\ channels # <<>>
      /\ channels \in Seq(Seq(Event)) /\ lost \in Seq([EventType -> Nat]) /\ lost # <<>>
  <2>1. sockets # <<>> /\ sockets \in Seq(BOOLEAN)
    BY DEF FrontInv, TypeOK, ServerTypeOK
  <2>2. channels # <<>> /\ BusTypeOK
    BY <2>1, SocketsHaveChannels
  <2> QED  BY <2>1, <2>2 DEF BusTypeOK
<1>2. /\ sockets' = Append(sockets, TRUE) /\ channels' = Append(channels, <<>>)
      /\ lost' = Append(lost, NoneLost)
      /\ UNCHANGED <<handlers, raced, serving, Nodes, connectedUsers, shownNodes,
                     shownUsers>>
  BY DEF ConnectSocket, Subscribe, registry
<1>3. /\ sockets'[1] = sockets[1] /\ sockets' # <<>> /\ channels'[1] = channels[1]
      /\ lost'[1] = lost[1]
  <2>1. ASSUME NEW T, NEW s \in Seq(T), NEW x, s # <<>>
        PROVE  Append(s, x)[1] = s[1] /\ Append(s, x) # <<>>
    BY <2>1
  <2>2. sockets'[1] = sockets[1] /\ sockets' # <<>>
    <3>1. sockets \in Seq(BOOLEAN) /\ sockets # <<>> /\ sockets' = Append(sockets, TRUE)
      BY <1>1, <1>2
    <3> QED  BY <2>1, <3>1, Zenon
  <2>3. channels'[1] = channels[1]
    BY <1>1, <1>2, <2>1
  <2>4. lost'[1] = lost[1]
    BY <1>1, <1>2, <2>1
  <2> QED  BY <2>2, <2>3, <2>4
<1>4. RealUsers => RealUsers'
  BY <1>2, <1>3 DEF RealUsers
<1>5. Informed' => Informed
  BY <1>3 DEF Informed
<1>6. \A id \in NodeID, user \in Marks : WillShow(id, user)' <=> WillShow(id, user)
  BY <1>2, <1>3 DEF WillShow, Shows
<1> QED  BY <1>2, <1>3, <1>4, <1>5, <1>6, SubscriberFront

LEMMA WriteFront ==
    ASSUME TypeOK, FrontInv, NEW i, WriteEvent(i), run = "off", UNCHANGED run
    PROVE  FrontInv'
<1>1. /\ sockets # <<>> /\ sockets \in Seq(BOOLEAN) /\ BusTypeOK
      /\ 1 \in DOMAIN channels /\ channels[1] \in Seq(Event)
      /\ channels \in Seq(Seq(Event)) /\ 1 \in DOMAIN sockets
  <2>1. sockets # <<>> /\ sockets \in Seq(BOOLEAN)
    BY DEF FrontInv, TypeOK, ServerTypeOK
  <2> QED  BY <2>1, SocketsHaveChannels DEF BusTypeOK
<1>2. /\ UNCHANGED <<handlers, raced, serving, Nodes, connectedUsers, lost>>
      /\ channels[i] # <<>> /\ channels' = [channels EXCEPT ![i] = Tail(@)]
      /\ \/ sockets' = sockets
         \/ sockets' = [sockets EXCEPT ![i] = FALSE] /\ UNCHANGED <<shownNodes, shownUsers>>
  BY DEF WriteEvent, TakeEvent, registry
<1>3. sockets' # <<>>
  BY <1>1, <1>2
<1>4. CASE i # 1
  <2>1. /\ UNCHANGED <<shownNodes, shownUsers>> /\ channels'[1] = channels[1]
        /\ sockets'[1] = sockets[1]
    BY <1>1, <1>2, <1>4 DEF WriteEvent
  <2>2. RealUsers => RealUsers'
    BY <2>1 DEF RealUsers
  <2>3. Informed' => Informed
    BY <1>2, <2>1 DEF Informed
  <2>4. \A id \in NodeID, user \in Marks : WillShow(id, user)' <=> WillShow(id, user)
    BY <2>1 DEF WillShow, Shows
  <2> QED  BY <1>2, <1>3, <2>2, <2>3, <2>4, SubscriberFront
<1>5. CASE i = 1
  <2>1. /\ channels'[1] = Tail(channels[1]) /\ channels[1] # <<>>
        /\ Head(channels[1]) = channels[1][1] /\ 1 \in DOMAIN channels[1]
        /\ \A k \in DOMAIN Tail(channels[1]) :
              k + 1 \in DOMAIN channels[1] /\ Tail(channels[1])[k] = channels[1][k + 1]
    BY <1>1, <1>2, <1>5
  <2>2. \/ Show(Head(channels[1])) /\ sockets' = sockets
        \/ ~sockets'[1] /\ UNCHANGED <<shownNodes, shownUsers>>
    BY <1>1, <1>5 DEF WriteEvent
  <2>3. ASSUME RealUsers PROVE RealUsers'
    <3>1. \A k \in DOMAIN channels'[1] :
              channels'[1][k].type = "CREATE_USER" => channels'[1][k].user \in User
      BY <2>1, <2>3 DEF RealUsers
    <3>2. shownUsers' \subseteq NodeID \X User
      <4>1. PICK e \in Event : e = channels[1][1]
        BY <1>1, <2>1
      <4>2. e.id \in NodeID /\ (e.type = "CREATE_USER" => e.user \in User)
        BY <2>1, <2>3, <4>1 DEF RealUsers, Event
      <4>3. shownUsers \subseteq NodeID \X User
        BY <2>3 DEF RealUsers
      <4>4. CASE Show(e)
        BY <4>2, <4>3, <4>4 DEF Show
      <4> QED  BY <2>1, <2>2, <4>1, <4>3, <4>4
    <3> QED  BY <3>1, <3>2 DEF RealUsers
  <2>4. ASSUME Informed'
        PROVE  Informed /\ \A id \in NodeID, user \in Marks :
                   WillShow(id, user)' <=> WillShow(id, user)
    <3>1. Show(Head(channels[1])) /\ sockets' = sockets
      BY <2>2, <2>4 DEF Informed
    <3>2. Informed
      BY <1>2, <2>4, <3>1 DEF Informed
    <3> QED  BY <1>1, <1>2, <1>5, <2>1, <3>1, <3>2, ReadShows
  <2> QED  BY <1>2, <1>3, <2>3, <2>4, SubscriberFront
<1> QED  BY <1>4, <1>5

LEMMA InitFront ==
    ASSUME Init
    PROVE  FrontInv
<1>1. /\ serving = Nothing /\ Nodes = [id \in NodeID |-> NoObject] /\ handlers = <<>>
      /\ connectedUsers = [o \in Object |-> {}] /\ shownNodes = {} /\ shownUsers = {}
      /\ run # "off" => sockets = <<>>
      /\ run = "off" => channels = <<<<>>>> /\ sockets = <<TRUE>>
  BY DEF Init, NoNodes
<1>2. CASE run = "off"
  <2>1. sockets # <<>> /\ channels[1] = <<>>
    BY <1>1, <1>2
  <2>2. TellTruth /\ RealUsers
    BY <1>1, <2>1 DEF TellTruth, RealUsers
  <2>3. ASSUME NEW id \in NodeID, NEW user \in Marks
        PROVE  ~WillShow(id, user) /\ ~Expected(id, user)
    <3>1. ~Ends(channels[1], News(id, user), Good(id, user))
      BY <2>1 DEF Ends
    <3>2. ~Shows(id, user)
      BY <1>1 DEF Shows
    <3>3. ~Expected(id, user)
      BY <1>1 DEF Expected, usersAt
    <3> QED  BY <3>1, <3>2, <3>3 DEF WillShow
  <2> QED  BY <1>2, <2>1, <2>2, <2>3 DEF FrontInv, Agree
<1> QED  BY <1>1, <1>2 DEF FrontInv

LEMMA StepFront ==
    ASSUME ProgramsInv, UsersInv, FrontInv, [Next]_vars
    PROVE  FrontInv'
<1>0. TypeOK
  BY DEF ProgramsInv
<1>1. CASE Shared(NetworkGoroutine)
  <2>1. /\ NetworkGoroutine
        /\ UNCHANGED <<handlers, sockets, raced, run, shownNodes, shownUsers,
                       channels, lost, connectedUsers>>
    BY <1>1 DEF Shared, NetworkGoroutine, addNode, removeNode, runner, server, bus
  <2>2. ASSUME ~raced
        PROVE  \A id \in NodeID, user \in Marks :
                   Expected(id, user)' <=> Expected(id, user)
    BY <2>1, <2>2, NetworkExpected DEF UsersInv
  <2> QED  BY <2>1, <2>2, FrontFrame
<1>2. CASE \E o \in Object : Shared(NodeGoroutine(o))
  <2>1. UNCHANGED <<handlers, sockets, raced, run, shownNodes, shownUsers, channels,
                    lost, connectedUsers, serving, Nodes>>
    BY <1>2 DEF Shared, NodeGoroutine, RunNode, StopNode, runner, server, bus
  <2> QED  BY <2>1, ExpectedSame, FrontFrame
<1>3. CASE Batch(RunnerNext)
  <2>1. run # "off" /\ run' # "off" /\ UNCHANGED sockets
    BY <1>3, BatchStays DEF Batch, server
  <2> QED  BY <2>1 DEF FrontInv
<1>4. CASE Server(ServerNext)
  <2>1. ServerNext /\ run = "off" /\ UNCHANGED run
    BY <1>4 DEF Server, runner
  <2>2. ASSUME NEW i, Handle(i) PROVE FrontInv'
    BY <2>1, <2>2, HandleFront
  <2>3. ASSUME NEW i, WriteEvent(i) PROVE FrontInv'
    BY <1>0, <2>1, <2>3, WriteFront
  <2> QED  BY <1>0, <2>1, <2>2, <2>3, ReceiveFront, ConnectFront DEF ServerNext
<1>5. CASE UNCHANGED vars
  <2>1. UNCHANGED <<handlers, sockets, raced, run, shownNodes, shownUsers, channels,
                    lost, connectedUsers, serving, Nodes>>
    BY <1>5 DEF vars, registry, runner, server, bus
  <2> QED  BY <2>1, ExpectedSame, FrontFrame
<1> QED  BY <1>1, <1>2, <1>3, <1>4, <1>5 DEF Next

\* The events of the handlers and the front end of wsHandler (commands.go,
\* websocket.go): as long as requests about the same nodes or the same user do not
\* overlap, a front end that has missed no event shows, when nothing is left to
\* do, the nodes in the map and the users at them.
THEOREM FrontEndShowsWhatIs == Spec => []FrontEndAgrees
<1>1. ProgramsInv /\ FrontInv => FrontEndAgrees
  <2> SUFFICES ASSUME ProgramsInv, FrontInv, handlers = <<>>, serving = Nothing, ~raced,
                      sockets # <<>>, sockets[1], channels[1] = <<>>,
                      lost[1] = NoneLost
               PROVE  /\ shownNodes = members
                      /\ shownUsers = {s \in NodeID \X User : s[2] \in usersAt(s[1])}
    BY DEF FrontEndAgrees
  <2>1. RealUsers /\ Agree /\ shownNodes \subseteq NodeID
    BY DEF FrontInv, Informed, ProgramsInv, TypeOK, ServerTypeOK
  <2>2. ASSUME NEW id \in NodeID, NEW user \in Marks
        PROVE  Shows(id, user) <=>
                   IF user = NoUser THEN Nodes[id] # NoObject ELSE user \in usersAt(id)
    <3>1. WillShow(id, user) <=> Expected(id, user)
      BY <2>1 DEF Agree
    <3>2. WillShow(id, user) <=> Shows(id, user)
      BY DEF WillShow, Ends, Silent
    <3> QED  BY <3>1, <3>2 DEF Expected
  <2>3. shownNodes = members
    <3>1. \A id \in NodeID : id \in shownNodes <=> Nodes[id] # NoObject
      BY <2>2 DEF Shows, Marks
    <3> QED  BY <2>1, <3>1 DEF members
  <2>4. shownUsers = {s \in NodeID \X User : s[2] \in usersAt(s[1])}
    <3>1. \A id \in NodeID, user \in User :
              <<id, user>> \in shownUsers <=> user \in usersAt(id)
      BY <2>2, RegistryAssumption DEF Shows, Marks, RegistryAssumption
    <3>2. shownUsers \subseteq NodeID \X User
      BY <2>1 DEF RealUsers
    <3>3. \A s \in NodeID \X User : s = <<s[1], s[2]>> /\ s[1] \in NodeID /\ s[2] \in User
      OBVIOUS
    <3> QED  BY <3>1, <3>2, <3>3
  <2> QED  BY <2>3, <2>4
<1>2. Spec => []UsersInv
  BY InitUsers, StepUsers, ProgramsInvariant, PTL DEF Spec
<1> QED  BY <1>1, <1>2, InitFront, StepFront, ProgramsInvariant, PTL DEF Spec

=============================================================================
