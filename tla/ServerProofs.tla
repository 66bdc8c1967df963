----------------------------- MODULE ServerProofs -----------------------------
(***************************************************************************)
(* The parts of the server that run on its event loop: the event stream,   *)
(* dictation, the Weixin channel and the workspace sessions, for any       *)
(* number of clients, tasks, accounts and requests.                        *)
(***************************************************************************)
EXTENDS ComponentsProofs, Integers, Sequences
-----------------------------------------------------------------------------
(***************************************************************************)
(* Dictation.  Who loads a recognizer holds the lock, and loads the        *)
(* configuration in force: a save waits for the lock before it changes it. *)
(***************************************************************************)
StreamFields == {"at", "model", "committed", "heard", "shown", "final"}
Loading ==
  /\ recognizer \in {None, config}
  /\ DOMAIN stream = Clients /\ \A c \in Clients : DOMAIN stream[c] = StreamFields
  /\ \A c \in Clients : stream[c].at = "loading" => lock = c /\ stream[c].model = config

\* The client's stream goes to a place where it does not load.
LEMMA LoadingMoves ==
  ASSUME Loading, NEW c \in Clients, NEW s, DOMAIN s = StreamFields, s.at # "loading",
         stream' = [stream EXCEPT ![c] = s]
  PROVE  /\ DOMAIN stream' = Clients /\ \A d \in Clients : DOMAIN stream'[d] = StreamFields
         /\ \A d \in Clients : stream'[d].at = "loading" =>
              d # c /\ lock = d /\ stream'[d].model = config
BY DEF Loading

LEMMA FreshFields ==
  ASSUME NEW place PROVE LET s == Recognition!Fresh(place) IN DOMAIN s = StreamFields /\ s.at = place
BY DEF Recognition!Fresh, StreamFields

LEMMA LoadingStep ==
  ASSUME Loading, [Recognition!Next]_recognition
  PROVE  Loading'
<1> USE DEF Recognition!service, Recognition!Put, Recognition!Serves, Recognition!LoopFree
<1>0. None \notin Clients
  BY ComponentConstants DEF Recognition!RecognitionConstants
<1>1. CASE Recognition!Reconfigure
  BY <1>0, <1>1 DEF Recognition!Reconfigure, Loading
<1>2. ASSUME NEW k \in Configs, Recognition!SaveSettings(k) PROVE Loading'
  BY <1>2 DEF Recognition!SaveSettings, Loading
<1>3. ASSUME NEW c \in Clients, Recognition!Connect(c) PROVE Loading'
  BY <1>3, FreshFields, LoadingMoves DEF Recognition!Connect, Loading
<1>4. ASSUME NEW c \in Clients, Recognition!Cached(c) PROVE Loading'
  <2>1. PICK s : /\ DOMAIN s = StreamFields /\ s.at # "loading"
                 /\ stream' = [stream EXCEPT ![c] = s]
    BY <1>4 DEF Recognition!Cached, Recognition!Opened, Loading, StreamFields
  <2> QED
    BY <1>4, <2>1, LoadingMoves DEF Recognition!Cached, Loading
<1>5. ASSUME NEW c \in Clients, Recognition!LoadRecognizer(c) PROVE Loading'
  <2>1. CASE recognizer # None
    <3>1. PICK s : /\ DOMAIN s = StreamFields /\ s.at # "loading"
                   /\ stream' = [stream EXCEPT ![c] = s]
      BY <1>5, <2>1 DEF Recognition!LoadRecognizer, Recognition!Opened, Loading, StreamFields
    <3> QED
      BY <1>5, <2>1, <3>1, LoadingMoves DEF Recognition!LoadRecognizer, Loading
  <2>2. CASE recognizer = None
    BY <1>0, <1>5, <2>2 DEF Recognition!LoadRecognizer, Loading, StreamFields
  <2> QED
    BY <2>1, <2>2
<1>6. ASSUME NEW c \in Clients, Recognition!Loaded(c) PROVE Loading'
  <2>1. PICK s : /\ DOMAIN s = StreamFields /\ s.at # "loading"
                 /\ stream' = [stream EXCEPT ![c] = s]
    BY <1>6 DEF Recognition!Loaded, Recognition!Opened, Loading, StreamFields
  <2> QED
    BY <1>6, <2>1, LoadingMoves DEF Recognition!Loaded, Loading
<1>7. ASSUME NEW c \in Clients, Recognition!LoadFails(c) PROVE Loading'
  BY <1>7, FreshFields, LoadingMoves DEF Recognition!LoadFails, Loading
<1>8. ASSUME NEW c \in Clients, Recognition!Audio(c) PROVE Loading'
  <2>1. PICK s : /\ DOMAIN s = StreamFields /\ s.at # "loading"
                 /\ stream' = [stream EXCEPT ![c] = s]
    BY <1>8 DEF Recognition!Audio, Loading, StreamFields
  <2> QED
    BY <1>8, <2>1, LoadingMoves DEF Recognition!Audio, Loading
<1>9. ASSUME NEW c \in Clients, Recognition!Finish(c) PROVE Loading'
  <2>1. PICK s : /\ DOMAIN s = StreamFields /\ s.at # "loading"
                 /\ stream' = [stream EXCEPT ![c] = s]
    BY <1>9 DEF Recognition!Finish, Loading, StreamFields
  <2> QED
    BY <1>9, <2>1, LoadingMoves DEF Recognition!Finish, Loading
<1>10. ASSUME NEW c \in Clients, Recognition!Ends(c) PROVE Loading'
  BY <1>10, FreshFields, LoadingMoves DEF Recognition!Ends, Loading
<1>11. ASSUME NEW c \in Clients, NEW words \in 0 .. 1, Recognition!Finished(c, words)
       PROVE  Loading'
  <2>1. PICK s : /\ DOMAIN s = StreamFields /\ s.at # "loading"
                 /\ stream' = [stream EXCEPT ![c] = s]
    BY <1>11 DEF Recognition!Finished, Loading, StreamFields
  <2> QED
    BY <1>11, <2>1, LoadingMoves DEF Recognition!Finished, Loading
<1>12. ASSUME NEW c \in Clients, NEW words \in 0 .. 1, NEW endpoint \in BOOLEAN,
              Recognition!Decoded(c, words, endpoint)
       PROVE  Loading'
  <2>1. PICK s : /\ DOMAIN s = StreamFields /\ s.at # "loading"
                 /\ stream' = [stream EXCEPT ![c] = s]
    BY <1>12 DEF Recognition!Decoded, Loading, StreamFields
  <2> QED
    BY <1>12, <2>1, LoadingMoves DEF Recognition!Decoded, Loading
<1>13. CASE UNCHANGED recognition
  BY <1>13 DEF recognition, Loading
<1> QED
  BY <1>1, <1>2, <1>3, <1>4, <1>5, <1>6, <1>7, <1>8, <1>9, <1>10, <1>11, <1>12, <1>13
     DEF Recognition!Next

\* The recognizer that is cached is of the configuration in force, whatever save
\* falls into the load of a model.
THEOREM RecognizerIsCurrentHolds == Spec => []Recognition!RecognizerIsCurrent
<1>1. Recognition!Init => Loading
  <2>1. Recognition!Init => \A c \in Clients : stream[c] = Recognition!Fresh("closed")
    BY DEF Recognition!Init
  <2> QED
    BY <2>1, FreshFields DEF Recognition!Init, Loading
<1>2. Loading /\ [Recognition!Next]_recognition => Loading'
  BY LoadingStep
<1>3. Loading => Recognition!RecognizerIsCurrent
  BY DEF Loading, Recognition!RecognizerIsCurrent
<1> QED
  BY <1>1, <1>2, <1>3, EachAlone, PTL
-----------------------------------------------------------------------------
(***************************************************************************)
(* Types of dictation.                                                     *)
(***************************************************************************)
LEMMA FreshIs ==
  ASSUME NEW place \in Recognition!Places PROVE Recognition!IsStream(Recognition!Fresh(place))
BY ComponentConstants
   DEF Recognition!RecognitionConstants, Recognition!IsStream, Recognition!Fresh

\* A client's stream goes on, and the rest of the service is of its types.
LEMMA StreamTyped ==
  ASSUME Recognition!TypeOK, Loading, NEW c \in Clients, NEW s, Recognition!IsStream(s),
         Recognition!Put(c, s), config' = config, saving' = saving, present' = present,
         speechSaves' = speechSaves, recognizer' \in Configs \cup {None},
         lock' \in Clients \cup {None}
  PROVE  Recognition!TypeOK'
<1>1. ASSUME NEW d \in Clients PROVE stream'[d] = IF d = c THEN s ELSE stream[d]
  BY DEF Recognition!Put, Loading
<1>2. ASSUME NEW d \in Clients PROVE Recognition!IsStream(stream'[d])
  BY <1>1 DEF Recognition!TypeOK
<1> QED
  BY <1>2 DEF Recognition!TypeOK

\* A stream that goes elsewhere and keeps the rest, or changes its words.
LEMMA StreamGoes ==
  ASSUME NEW s, Recognition!IsStream(s), DOMAIN s = StreamFields,
         NEW place \in Recognition!Places, NEW k \in Configs \cup {None}
  PROVE  /\ Recognition!IsStream([s EXCEPT !.at = place])
         /\ Recognition!IsStream([s EXCEPT !.at = place, !.model = k])
BY DEF Recognition!IsStream, StreamFields

LEMMA RecognitionTypesStep ==
  ASSUME Loading, Recognition!TypeOK, [Recognition!Next]_recognition
  PROVE  Recognition!TypeOK'
<1>0. /\ config \in Configs /\ recognizer \in Configs \cup {None} /\ saving \in Configs \cup {None}
      /\ lock \in Clients \cup {None} /\ present \subseteq Configs /\ speechSaves \in 0 .. MaxSpeechSaves
      /\ \A c \in Clients : Recognition!IsStream(stream[c]) /\ DOMAIN stream[c] = StreamFields
      /\ {MaxSpeechSaves, MaxWords} \subseteq Nat
  BY ComponentConstants DEF Recognition!TypeOK, Loading, Recognition!RecognitionConstants
<1>a. {"closed", "creating", "waiting", "loading", "ready", "decoding", "finishing"} = Recognition!Places
  BY DEF Recognition!Places
<1>1. CASE Recognition!Reconfigure
  BY <1>0, <1>1 DEF Recognition!Reconfigure, Recognition!TypeOK
<1>2. ASSUME NEW k \in Configs, Recognition!SaveSettings(k) PROVE Recognition!TypeOK'
  BY <1>0, <1>2 DEF Recognition!SaveSettings, Recognition!TypeOK
<1>3. ASSUME NEW c \in Clients, Recognition!Connect(c) PROVE Recognition!TypeOK'
  BY <1>0, <1>a, <1>3, FreshIs, StreamTyped DEF Recognition!Connect, Recognition!service
<1>4. ASSUME NEW c \in Clients, Recognition!Cached(c) PROVE Recognition!TypeOK'
  <2>1. PICK s : Recognition!IsStream(s) /\ Recognition!Put(c, s)
    BY <1>0, <1>a, <1>4, StreamGoes DEF Recognition!Cached, Recognition!Opened
  <2> QED
    BY <1>0, <1>4, <2>1, StreamTyped DEF Recognition!Cached, Recognition!service
<1>5. ASSUME NEW c \in Clients, Recognition!LoadRecognizer(c) PROVE Recognition!TypeOK'
  <2>1. PICK s : Recognition!IsStream(s) /\ Recognition!Put(c, s)
    BY <1>0, <1>a, <1>5, StreamGoes DEF Recognition!LoadRecognizer, Recognition!Opened
  <2> QED
    BY <1>0, <1>5, <2>1, StreamTyped DEF Recognition!LoadRecognizer
<1>6. ASSUME NEW c \in Clients, Recognition!Loaded(c) PROVE Recognition!TypeOK'
  <2>0. stream[c].model \in Configs
    BY <1>0, <1>6 DEF Recognition!Loaded
  <2>1. PICK s : Recognition!IsStream(s) /\ Recognition!Put(c, s)
    BY <1>0, <1>a, <1>6, <2>0, StreamGoes DEF Recognition!Loaded, Recognition!Opened
  <2> QED
    BY <1>0, <1>6, <2>0, <2>1, StreamTyped DEF Recognition!Loaded
<1>7. ASSUME NEW c \in Clients, Recognition!LoadFails(c) PROVE Recognition!TypeOK'
  BY <1>0, <1>a, <1>7, FreshIs, StreamTyped DEF Recognition!LoadFails
<1>8. ASSUME NEW c \in Clients, Recognition!Audio(c) \/ Recognition!Finish(c)
      PROVE  Recognition!TypeOK'
  <2>1. PICK s : Recognition!IsStream(s) /\ Recognition!Put(c, s)
    BY <1>0, <1>a, <1>8, StreamGoes DEF Recognition!Audio, Recognition!Finish
  <2> QED
    BY <1>0, <1>8, <2>1, StreamTyped
       DEF Recognition!Audio, Recognition!Finish, Recognition!service
<1>9. ASSUME NEW c \in Clients, Recognition!Ends(c) PROVE Recognition!TypeOK'
  BY <1>0, <1>a, <1>9, FreshIs, StreamTyped DEF Recognition!Ends, Recognition!service
<1>10. ASSUME NEW c \in Clients, NEW words \in 0 .. 1, Recognition!Finished(c, words)
       PROVE  Recognition!TypeOK'
  <2>1. PICK n : n = Recognition!Text(stream[c]) + words
    OBVIOUS
  <2>2. n \in 0 .. MaxWords
    BY <1>0, <1>10, <2>1 DEF Recognition!Finished, Recognition!Text, Recognition!IsStream
  <2>3. PICK s : s = [stream[c] EXCEPT !.at = "closed", !.committed = n, !.heard = 0,
                                       !.shown = n, !.final = TRUE]
    OBVIOUS
  <2>4. Recognition!IsStream(s)
    BY <1>0, <1>a, <2>2, <2>3 DEF Recognition!IsStream, StreamFields
  <2>5. Recognition!Put(c, s)
    BY <1>10, <2>1, <2>3 DEF Recognition!Finished
  <2> QED
    BY <1>0, <1>10, <2>4, <2>5, StreamTyped DEF Recognition!Finished, Recognition!service
<1>11. ASSUME NEW c \in Clients, NEW words \in 0 .. 1, NEW endpoint \in BOOLEAN,
              Recognition!Decoded(c, words, endpoint)
       PROVE  Recognition!TypeOK'
  <2>1. PICK n : n = Recognition!Text(stream[c]) + words
    OBVIOUS
  <2>2. n \in 0 .. MaxWords
    BY <1>0, <1>11, <2>1 DEF Recognition!Decoded, Recognition!Text, Recognition!IsStream
  <2>3. PICK s : s = [stream[c] EXCEPT !.at = "ready", !.shown = n,
                                       !.committed = IF endpoint THEN n ELSE @,
                                       !.heard = IF endpoint THEN 0 ELSE @ + words]
    OBVIOUS
  <2>4. /\ s.at = "ready" /\ s.model = stream[c].model /\ s.final = stream[c].final /\ s.shown = n
        /\ s.committed = IF endpoint THEN n ELSE stream[c].committed
        /\ s.heard = IF endpoint THEN 0 ELSE stream[c].heard + words
    BY <1>0, <2>3 DEF StreamFields
  <2>5. stream[c].heard + words \in 0 .. MaxWords
    BY <1>0, <2>1, <2>2 DEF Recognition!Text, Recognition!IsStream
  <2>6. Recognition!IsStream(s)
    BY <1>0, <1>a, <2>2, <2>4, <2>5 DEF Recognition!IsStream
  <2>7. Recognition!Put(c, s)
    BY <1>11, <2>1, <2>3 DEF Recognition!Decoded
  <2> QED
    BY <1>0, <1>11, <2>6, <2>7, StreamTyped DEF Recognition!Decoded, Recognition!service
<1>12. CASE UNCHANGED recognition
  BY <1>12 DEF recognition, Recognition!TypeOK
<1> QED
  BY <1>1, <1>2, <1>3, <1>4, <1>5, <1>6, <1>7, <1>8, <1>9, <1>10, <1>11, <1>12
     DEF Recognition!Next

LEMMA RecognitionTypesHold == Spec => []Recognition!TypeOK
<1>1. Recognition!Init => Loading /\ Recognition!TypeOK
  <2>1. Recognition!Init => \A c \in Clients : stream[c] = Recognition!Fresh("closed")
    BY DEF Recognition!Init
  <2>2. Recognition!Init => \A c \in Clients : Recognition!IsStream(stream[c])
    BY <2>1, FreshIs DEF Recognition!Places
  <2>3. Recognition!Init => Loading
    BY <2>1, FreshFields DEF Recognition!Init, Loading
  <2> QED
    BY <2>2, <2>3, ComponentConstants
       DEF Recognition!Init, Recognition!TypeOK, Recognition!RecognitionConstants
<1>2. Loading /\ Recognition!TypeOK /\ [Recognition!Next]_recognition
        => Loading' /\ Recognition!TypeOK'
  BY LoadingStep, RecognitionTypesStep
<1> QED
  BY <1>1, <1>2, EachAlone, PTL
-----------------------------------------------------------------------------
(***************************************************************************)
(* The event stream.                                                       *)
(***************************************************************************)

\* What a cut leaves of a sequence, and what grows at its end.
LEMMA Grows ==
  ASSUME NEW s \in Seq(Nat), NEW h \in Seq(Nat), NEW q \in Seq(Nat), NEW x \in Nat
  PROVE  s \o h \o Append(q, x) = Append(s \o h \o q, x)
OBVIOUS

LEMMA HeadCut ==
  ASSUME NEW s \in Seq(Nat), NEW q \in Seq(Nat), q # <<>>
  PROVE  s \o <<>> \o q = s \o <<Head(q)>> \o Tail(q)
OBVIOUS

LEMMA LastCut ==
  ASSUME NEW s \in Seq(Nat), NEW q \in Seq(Nat), NEW x \in Nat
  PROVE  s \o <<x>> \o q = Append(s, x) \o <<>> \o q
<1>1. s \o <<x>> = Append(s, x) /\ Append(s, x) = Append(s, x) \o <<>>
  OBVIOUS
<1> QED
  BY <1>1

From(a, n) == [i \in 1 .. n |-> a + i]
LEMMA FromGrows ==
  ASSUME NEW a \in Nat, NEW n \in Nat
  PROVE  From(a, 0) = <<>> /\ Append(From(a, n), a + n + 1) = From(a, n + 1)
<1>1. From(a, 0) = <<>>
  BY DEF From
<1>2. From(a, n) \in Seq(Nat) /\ Len(From(a, n)) = n
  BY DEF From
<1>3. Append(From(a, n), a + n + 1) = From(a, n + 1)
  BY <1>2 DEF From
<1> QED
  BY <1>1, <1>3

\* What the getter has taken is in its hands as long as it is done, and it runs
\* in a wait only; what has been sent, is held and is queued is all there was.
Held(c) == IF item[c] = Nothing THEN <<>> ELSE <<item[c]>>
All(c) == sent[c] \o Held(c) \o queue[c]
Whole(c) == Events!Subscribed(c) => All(c) = From(since[c], published - since[c])
Shape(c) ==
  /\ queue[c] \in Seq(Nat) /\ sent[c] \in Seq(Nat) /\ item[c] \in Nat \cup {Nothing}
  /\ since[c] \in 0 .. published
  /\ getter[c] = "done" <=> item[c] # Nothing
  /\ phase[c] \in {"new", "idle"} => getter[c] = "none"
  /\ phase[c] = "new" => queue[c] = <<>> /\ sent[c] = <<>>
Streams ==
  /\ published \in Nat
  /\ DOMAIN queue = Clients /\ DOMAIN sent = Clients /\ DOMAIN since = Clients
  /\ DOMAIN phase = Clients /\ DOMAIN getter = Clients /\ DOMAIN item = Clients
  /\ \A c \in Clients : Shape(c) /\ Whole(c)

\* A step of the generator of client c that leaves the other clients alone.
Only(c) ==
  /\ DOMAIN queue' = Clients /\ DOMAIN sent' = Clients /\ DOMAIN since' = Clients
  /\ DOMAIN phase' = Clients /\ DOMAIN getter' = Clients /\ DOMAIN item' = Clients
  /\ published' = published
  /\ \A d \in Clients \ {c} :
       /\ queue'[d] = queue[d] /\ sent'[d] = sent[d] /\ since'[d] = since[d]
       /\ phase'[d] = phase[d] /\ getter'[d] = getter[d] /\ item'[d] = item[d]

LEMMA StreamsMoves ==
  ASSUME Streams, NEW c \in Clients, Only(c),
         queue'[c] \in Seq(Nat), sent'[c] \in Seq(Nat), item'[c] \in Nat \cup {Nothing},
         since'[c] \in 0 .. published,
         getter'[c] = "done" <=> item'[c] # Nothing,
         phase'[c] \in {"new", "idle"} => getter'[c] = "none",
         phase'[c] # "new",
         Events!Subscribed(c)' => All(c)' = From(since'[c], published - since'[c])
  PROVE  Streams'
<1>1. ASSUME NEW d \in Clients, d # c PROVE Shape(d)' /\ Whole(d)'
  <2>0. /\ queue'[d] = queue[d] /\ sent'[d] = sent[d] /\ since'[d] = since[d]
        /\ phase'[d] = phase[d] /\ getter'[d] = getter[d] /\ item'[d] = item[d]
        /\ published' = published
    BY <1>1 DEF Only
  <2>1. All(d)' = All(d) /\ (Events!Subscribed(d)' <=> Events!Subscribed(d))
    BY <2>0 DEF All, Held, Events!Subscribed
  <2>2. Shape(d) /\ Whole(d)
    BY DEF Streams
  <2>3. Shape(d)'
    BY <2>0, <2>2 DEF Shape
  <2>4. Whole(d)'
    BY <2>0, <2>1, <2>2 DEF Whole
  <2> QED
    BY <2>3, <2>4
<1>2. published' = published
  BY DEF Only
<1>3. Shape(c)'
  BY <1>2 DEF Shape
<1>4. Whole(c)'
  BY <1>2 DEF Whole
<1> QED
  BY <1>1, <1>2, <1>3, <1>4 DEF Streams, Only

LEMMA PublishKeepsStreams ==
  ASSUME Streams, Events!Publish
  PROVE  Streams'
<1>1. /\ published' = published + 1 /\ published' \in Nat
      /\ since' = since /\ sent' = sent /\ phase' = phase /\ item' = item
      /\ DOMAIN queue' = Clients /\ DOMAIN getter' = Clients
  BY DEF Events!Publish, Streams
<1>2. ASSUME NEW c \in Clients PROVE Shape(c)' /\ Whole(c)'
  <2>0. Shape(c) /\ Whole(c) /\ published \in Nat
    BY DEF Streams
  <2>1. queue'[c] = IF Events!Subscribed(c) THEN Append(queue[c], published + 1) ELSE queue[c]
    BY DEF Events!Publish
  <2>2. getter'[c] = IF getter[c] = "blocked" THEN "woken" ELSE getter[c]
    BY DEF Events!Publish
  <2>3. (Events!Subscribed(c)' <=> Events!Subscribed(c)) /\ Held(c)' = Held(c)
    BY <1>1 DEF Held, Events!Subscribed
  <2>4. queue[c] \in Seq(Nat) /\ sent[c] \in Seq(Nat) /\ Held(c) \in Seq(Nat)
    BY <2>0 DEF Shape, Held
  <2>5. since[c] \in Nat /\ published - since[c] \in Nat /\ published + 1 \in Nat
    BY <2>0 DEF Shape
  <2>6. queue'[c] \in Seq(Nat) /\ (phase[c] = "new" => queue'[c] = queue[c])
    BY <2>1, <2>4, <2>5 DEF Events!Subscribed
  <2>7. Shape(c)'
    BY <1>1, <2>0, <2>2, <2>6 DEF Shape
  <2>8. ASSUME Events!Subscribed(c)
        PROVE  All(c)' = From(since[c], (published + 1) - since[c])
    <3>1. All(c)' = sent[c] \o Held(c) \o Append(queue[c], published + 1)
      BY <1>1, <2>1, <2>3, <2>8 DEF All
    <3>2. All(c)' = Append(All(c), published + 1)
      BY <2>4, <2>5, <3>1, Grows DEF All
    <3>3. PICK n \in Nat : n = published - since[c]
      BY <2>5
    <3>4. since[c] + n + 1 = published + 1 /\ n + 1 = (published + 1) - since[c]
      <4>1. published \in Nat /\ since[c] \in Nat /\ n = published - since[c]
        BY <2>0, <2>5, <3>3
      <4>2. ASSUME NEW p \in Nat, NEW s \in Nat, n = p - s
            PROVE  s + n + 1 = p + 1 /\ n + 1 = (p + 1) - s
        BY <4>2
      <4> QED
        BY <4>1, <4>2
    <3>5. Append(From(since[c], n), since[c] + n + 1) = From(since[c], n + 1)
      BY <2>5, FromGrows
    <3>6. All(c) = From(since[c], n)
      BY <2>0, <2>8, <3>3 DEF Whole
    <3> QED
      BY <3>2, <3>4, <3>5, <3>6
  <2>9. since'[c] = since[c] /\ published' - since'[c] = (published + 1) - since[c]
    BY <1>1
  <2>10. Events!Subscribed(c)' => All(c)' = From(since'[c], published' - since'[c])
    BY <2>3, <2>8, <2>9
  <2>11. Whole(c)'
    BY <2>10 DEF Whole
  <2> QED
    BY <2>7, <2>11
<1> QED
  BY <1>1, <1>2 DEF Streams

LEMMA StreamsStep ==
  ASSUME Streams, [Events!Next]_events
  PROVE  Streams'
<1>0. Nothing \notin Nat
  BY ComponentConstants DEF Events!StreamConstants
<1>1. CASE Events!Publish
  BY <1>1, PublishKeepsStreams
<1>2. CASE Events!Shutdown \/ UNCHANGED events
  BY <1>2 DEF Events!Shutdown, events, Streams, Shape, Whole, All, Held, Events!Subscribed
<1>3. ASSUME NEW c \in Clients, Events!Subscribe(c) PROVE Streams'
  <2>1. /\ phase[c] = "new" /\ Only(c) /\ phase'[c] = "idle" /\ since'[c] = published
        /\ queue' = queue /\ sent' = sent /\ getter' = getter /\ item' = item
    BY <1>3 DEF Events!Subscribe, Only, Streams
  <2>2. /\ queue[c] = <<>> /\ sent[c] = <<>> /\ item[c] = Nothing /\ getter[c] = "none"
        /\ published \in Nat /\ published - published = 0
    BY <2>1 DEF Streams, Shape
  <2>3. All(c)' = From(published, 0)
    <3>1. <<>> \o <<>> \o <<>> = <<>>
      OBVIOUS
    <3> QED
      BY <2>1, <2>2, <3>1, FromGrows DEF All, Held
  <2>4. since'[c] \in 0 .. published /\ queue'[c] \in Seq(Nat) /\ sent'[c] \in Seq(Nat)
    BY <2>1, <2>2
  <2>5. All(c)' = From(since'[c], published - since'[c])
    BY <2>1, <2>2, <2>3
  <2> QED
    BY <1>0, <2>1, <2>2, <2>4, <2>5, StreamsMoves
<1>4. ASSUME NEW c \in Clients, Events!Wait(c) PROVE Streams'
  <2>1. /\ phase[c] = "idle" /\ Only(c) /\ phase'[c] = "waiting" /\ getter'[c] = "made"
        /\ item'[c] = Nothing /\ queue' = queue /\ sent' = sent /\ since' = since
    BY <1>4 DEF Events!Wait, Only, Streams
  <2>2. item[c] = Nothing
    BY <2>1 DEF Streams, Shape
  <2> QED
    BY <2>1, <2>2, StreamsMoves DEF Streams, Shape, Whole, All, Held, Events!Subscribed
<1>5. ASSUME NEW c \in Clients, Events!GetterRuns(c) PROVE Streams'
  <2>0. getter[c] \in {"made", "woken"} /\ item[c] = Nothing /\ phase[c] \notin {"new", "idle"}
    BY <1>5 DEF Events!GetterRuns, Streams, Shape
  <2>1. CASE queue[c] = <<>>
    <3>1. /\ Only(c) /\ getter'[c] = "blocked" /\ queue' = queue /\ sent' = sent
          /\ since' = since /\ item' = item /\ phase' = phase
      BY <1>5, <2>1 DEF Events!GetterRuns, Only, Streams
    <3> QED
      BY <2>0, <3>1, StreamsMoves DEF Streams, Shape, Whole, All, Held, Events!Subscribed
  <2>2. CASE queue[c] # <<>>
    <3>1. /\ Only(c) /\ getter'[c] = "done" /\ queue'[c] = Tail(queue[c]) /\ sent' = sent
          /\ since' = since /\ item'[c] = Head(queue[c])
          /\ phase'[c] = IF phase[c] = "waiting" THEN "taken" ELSE phase[c]
      BY <1>5, <2>2 DEF Events!GetterRuns, Only, Streams
    <3>2. /\ queue[c] \in Seq(Nat) /\ sent[c] \in Seq(Nat)
          /\ Head(queue[c]) \in Nat /\ Tail(queue[c]) \in Seq(Nat)
      BY <2>2 DEF Streams, Shape
    <3>3. All(c)' = All(c)
      BY <1>0, <2>0, <2>2, <3>1, <3>2, HeadCut DEF All, Held
    <3>4. Events!Subscribed(c)' <=> Events!Subscribed(c)
      BY <3>1 DEF Events!Subscribed
    <3>5. phase'[c] \notin {"new", "idle"} /\ since'[c] \in 0 .. published
      BY <2>0, <3>1 DEF Streams, Shape
    <3>6. Events!Subscribed(c)' =>
            All(c)' = From(since'[c], published - since'[c])
      BY <3>1, <3>3, <3>4 DEF Streams, Whole
    <3> QED
      BY <1>0, <3>1, <3>2, <3>5, <3>6, StreamsMoves
  <2> QED
    BY <2>1, <2>2
<1>6. ASSUME NEW c \in Clients, Events!Timeout(c) PROVE Streams'
  <2>1. /\ phase[c] = "waiting" /\ Only(c) /\ phase'[c] = "elapsed"
        /\ queue' = queue /\ sent' = sent /\ since' = since /\ getter' = getter /\ item' = item
    BY <1>6 DEF Events!Timeout, Only, Streams
  <2> QED
    BY <2>1, StreamsMoves DEF Streams, Shape, Whole, All, Held, Events!Subscribed
<1>7. ASSUME NEW c \in Clients, Events!Resume(c) PROVE Streams'
  <2>1. /\ phase[c] \in {"taken", "elapsed"} /\ Only(c) /\ queue' = queue /\ since' = since
        /\ getter'[c] = "none" /\ item'[c] = Nothing
        /\ \/ phase'[c] = "closed" /\ sent' = sent
           \/ phase'[c] = "idle"
              /\ sent'[c] = IF getter[c] = "done" THEN Append(sent[c], item[c]) ELSE sent[c]
    BY <1>7 DEF Events!Resume, Events!HasItem, Only, Streams
  <2>2. queue[c] \in Seq(Nat) /\ sent[c] \in Seq(Nat) /\ (getter[c] = "done" <=> item[c] # Nothing)
        /\ item[c] \in Nat \cup {Nothing}
    BY DEF Streams, Shape
  <2>3. CASE phase'[c] = "closed" /\ sent' = sent
    BY <2>1, <2>3, StreamsMoves DEF Streams, Shape, Events!Subscribed
  <2>4. CASE /\ phase'[c] = "idle"
             /\ sent'[c] = IF getter[c] = "done" THEN Append(sent[c], item[c]) ELSE sent[c]
    <3>1. All(c)' = All(c)
      <4>1. Held(c)' = <<>> /\ queue'[c] = queue[c]
        BY <2>1 DEF All, Held
      <4>2. CASE item[c] = Nothing
        BY <2>2, <2>4, <4>1, <4>2 DEF All, Held
      <4>3. CASE item[c] # Nothing
        BY <2>2, <2>4, <4>1, <4>3, LastCut DEF All, Held
      <4> QED
        BY <4>2, <4>3
    <3>2. Events!Subscribed(c) /\ sent'[c] \in Seq(Nat)
      BY <2>1, <2>2, <2>4 DEF Events!Subscribed
    <3> QED
      BY <2>1, <2>4, <3>1, <3>2, StreamsMoves DEF Streams, Shape, Whole
  <2> QED
    BY <2>1, <2>3, <2>4
<1>8. ASSUME NEW c \in Clients, Events!Leave(c) PROVE Streams'
  <2>1. /\ Only(c) /\ queue' = queue /\ since' = since /\ sent' = sent
        /\ getter'[c] = "none" /\ item'[c] = Nothing /\ phase'[c] = "closed"
    BY <1>8 DEF Events!Leave, Only, Streams
  <2> QED
    BY <2>1, StreamsMoves DEF Streams, Shape, Events!Subscribed
<1> QED
  BY <1>1, <1>2, <1>3, <1>4, <1>5, <1>6, <1>7, <1>8 DEF Events!Next

\* A page that stays is sent every event since it subscribed, once and in order:
\* none is lost to a timeout or a ping that falls together with it.
THEOREM NothingLostHolds == Spec => []NothingLost
<1>1. Events!Init => Streams
  BY DEF Events!Init, Streams, Shape, Whole, Events!Subscribed
<1>2. Streams /\ [Events!Next]_events => Streams'
  BY StreamsStep
<1>3. Streams => NothingLost
  BY DEF Streams, Whole, All, NothingLost, Events!NothingLost, From, Held
<1> QED
  BY <1>1, <1>2, <1>3, EachAlone, PTL
-----------------------------------------------------------------------------
(***************************************************************************)
(* Types of the event stream.                                              *)
(***************************************************************************)
\* Sequences over a set, and over a larger one.
LEMMA SeqOver ==
  ASSUME NEW S, NEW q \in Seq(S)
  PROVE  /\ \A x \in S : Append(q, x) \in Seq(S)
         /\ q # <<>> => Head(q) \in S /\ Tail(q) \in Seq(S)
OBVIOUS

LEMMA SeqWidens ==
  ASSUME NEW S, NEW T, S \subseteq T, NEW q \in Seq(S)
  PROVE  q \in Seq(T)
<1>1. Len(q) \in Nat /\ q \in [1 .. Len(q) -> T]
  OBVIOUS
<1> QED
  BY <1>1

\* A generator's step leaves what the other clients have been sent, and hold, as it was.
LEMMA ClientTyped ==
  ASSUME Events!TypeOK, NEW c \in Clients, Only(c),
         shutdown' \in BOOLEAN, pings' \in 0 .. MaxPings,
         queue'[c] \in Seq(1 .. published), sent'[c] \in Seq(1 .. published),
         since'[c] \in 0 .. published, phase'[c] \in Events!Phases,
         getter'[c] \in Events!Getters, item'[c] \in 1 .. published \cup {Nothing}
  PROVE  Events!TypeOK'
<1>1. published' = published
  BY DEF Only
<1>2. ASSUME NEW d \in Clients, d # c
      PROVE  /\ queue'[d] = queue[d] /\ sent'[d] = sent[d] /\ since'[d] = since[d]
             /\ phase'[d] = phase[d] /\ getter'[d] = getter[d] /\ item'[d] = item[d]
  BY <1>2 DEF Only
<1> QED
  BY <1>1, <1>2 DEF Events!TypeOK

LEMMA PublishTyped ==
  ASSUME Streams, Events!TypeOK, Events!Publish
  PROVE  Events!TypeOK'
<1>1. /\ published \in Nat /\ published' = published + 1 /\ published' \in 0 .. MaxEvents
      /\ shutdown' = shutdown /\ pings' = pings
      /\ since' = since /\ sent' = sent /\ phase' = phase /\ item' = item
  BY ComponentConstants DEF Events!Publish, Events!TypeOK, Streams, Events!StreamConstants
<1>2. 1 .. published \subseteq 1 .. published' /\ published' \in 1 .. published'
  BY <1>1
<1>3. ASSUME NEW c \in Clients
      PROVE  /\ queue'[c] \in Seq(1 .. published') /\ sent'[c] \in Seq(1 .. published')
             /\ since'[c] \in 0 .. published' /\ phase'[c] \in Events!Phases
             /\ getter'[c] \in Events!Getters /\ item'[c] \in 1 .. published' \cup {Nothing}
  <2>1. /\ queue[c] \in Seq(1 .. published) /\ sent[c] \in Seq(1 .. published)
        /\ since[c] \in 0 .. published /\ phase[c] \in Events!Phases
        /\ getter[c] \in Events!Getters /\ item[c] \in 1 .. published \cup {Nothing}
    BY DEF Events!TypeOK
  <2>2. queue[c] \in Seq(1 .. published') /\ sent[c] \in Seq(1 .. published')
    BY <1>2, <2>1, SeqWidens
  <2>3. queue'[c] = IF Events!Subscribed(c) THEN Append(queue[c], published') ELSE queue[c]
    BY <1>1 DEF Events!Publish
  <2>4. queue'[c] \in Seq(1 .. published')
    BY <1>2, <2>2, <2>3, SeqOver
  <2>5. getter'[c] \in Events!Getters
    BY <2>1 DEF Events!Publish, Events!Getters
  <2>6. since[c] \in 0 .. published'
    BY <1>1, <2>1
  <2> QED
    BY <1>1, <1>2, <2>1, <2>2, <2>4, <2>5, <2>6
<1> QED
  BY <1>1, <1>3 DEF Events!TypeOK

LEMMA EventTypesStep ==
  ASSUME Streams, Events!TypeOK, [Events!Next]_events
  PROVE  Events!TypeOK'
<1>0. \A c \in Clients :
        /\ queue[c] \in Seq(1 .. published) /\ sent[c] \in Seq(1 .. published)
        /\ since[c] \in 0 .. published /\ phase[c] \in Events!Phases
        /\ getter[c] \in Events!Getters /\ item[c] \in 1 .. published \cup {Nothing}
  BY DEF Events!TypeOK
<1>a. published \in Nat /\ pings \in 0 .. MaxPings /\ shutdown \in BOOLEAN /\ MaxPings \in Nat
  BY ComponentConstants DEF Events!TypeOK, Streams, Events!StreamConstants
<1>1. CASE Events!Publish
  BY <1>1, PublishTyped
<1>2. CASE Events!Shutdown \/ UNCHANGED events
  BY <1>2 DEF Events!Shutdown, events, Events!TypeOK
<1>3. ASSUME NEW c \in Clients, Events!Subscribe(c) PROVE Events!TypeOK'
  <2>1. /\ Only(c) /\ phase'[c] = "idle" /\ since'[c] = published
        /\ queue' = queue /\ sent' = sent /\ getter' = getter /\ item' = item
        /\ shutdown' = shutdown /\ pings' = pings
    BY <1>3 DEF Events!Subscribe, Only, Streams
  <2>2. since'[c] \in 0 .. published /\ phase'[c] \in Events!Phases
    BY <1>a, <2>1 DEF Events!Phases
  <2> QED
    BY <1>0, <1>a, <2>1, <2>2, ClientTyped
<1>4. ASSUME NEW c \in Clients, Events!Wait(c) PROVE Events!TypeOK'
  <2>1. /\ Only(c) /\ phase'[c] = "waiting" /\ getter'[c] = "made" /\ item'[c] = Nothing
        /\ queue' = queue /\ sent' = sent /\ since' = since
        /\ shutdown' = shutdown /\ pings' = pings
    BY <1>4 DEF Events!Wait, Only, Streams
  <2>2. phase'[c] \in Events!Phases /\ getter'[c] \in Events!Getters
    BY <2>1 DEF Events!Phases, Events!Getters
  <2> QED
    BY <1>0, <1>a, <2>1, <2>2, ClientTyped
<1>5. ASSUME NEW c \in Clients, Events!GetterRuns(c) PROVE Events!TypeOK'
  <2>1. CASE queue[c] = <<>>
    <3>1. /\ Only(c) /\ getter'[c] = "blocked" /\ queue' = queue /\ sent' = sent
          /\ since' = since /\ item' = item /\ phase' = phase
          /\ shutdown' = shutdown /\ pings' = pings
      BY <1>5, <2>1 DEF Events!GetterRuns, Only, Streams
    <3>2. getter'[c] \in Events!Getters
      BY <3>1 DEF Events!Getters
    <3> QED
      BY <1>0, <1>a, <3>1, <3>2, ClientTyped
  <2>2. CASE queue[c] # <<>>
    <3>1. /\ Only(c) /\ getter'[c] = "done" /\ queue'[c] = Tail(queue[c]) /\ sent' = sent
          /\ since' = since /\ item'[c] = Head(queue[c])
          /\ phase'[c] = IF phase[c] = "waiting" THEN "taken" ELSE phase[c]
          /\ shutdown' = shutdown /\ pings' = pings
      BY <1>5, <2>2 DEF Events!GetterRuns, Only, Streams
    <3>2. Tail(queue[c]) \in Seq(1 .. published) /\ Head(queue[c]) \in 1 .. published
      BY <1>0, <2>2, SeqOver
    <3>3. phase'[c] \in Events!Phases /\ getter'[c] \in Events!Getters
      BY <1>0, <3>1 DEF Events!Phases, Events!Getters
    <3> QED
      BY <1>0, <1>a, <3>1, <3>2, <3>3, ClientTyped
  <2> QED
    BY <2>1, <2>2
<1>6. ASSUME NEW c \in Clients, Events!Timeout(c) PROVE Events!TypeOK'
  <2>1. /\ Only(c) /\ phase'[c] = "elapsed" /\ shutdown' = shutdown
        /\ queue' = queue /\ sent' = sent /\ since' = since /\ getter' = getter /\ item' = item
    BY <1>6 DEF Events!Timeout, Only, Streams
  <2>2. pings' \in 0 .. MaxPings /\ phase'[c] \in Events!Phases
    BY <1>6, <1>a, <2>1 DEF Events!Timeout, Events!Phases
  <2> QED
    BY <1>0, <1>a, <2>1, <2>2, ClientTyped
<1>7. ASSUME NEW c \in Clients, Events!Resume(c) PROVE Events!TypeOK'
  <2>1. /\ Only(c) /\ queue' = queue /\ since' = since
        /\ getter'[c] = "none" /\ item'[c] = Nothing
        /\ shutdown' = shutdown /\ pings' = pings /\ phase'[c] \in {"closed", "idle"}
        /\ sent'[c] = sent[c] \/ (getter[c] = "done" /\ sent'[c] = Append(sent[c], item[c]))
    BY <1>7 DEF Events!Resume, Events!HasItem, Only, Streams
  <2>2. getter[c] = "done" => item[c] \in 1 .. published
    BY <1>0 DEF Streams, Shape
  <2>3. sent'[c] \in Seq(1 .. published)
    BY <1>0, <2>1, <2>2, SeqOver
  <2>4. phase'[c] \in Events!Phases /\ getter'[c] \in Events!Getters
    BY <2>1 DEF Events!Phases, Events!Getters
  <2> QED
    BY <1>0, <1>a, <2>1, <2>3, <2>4, ClientTyped
<1>8. ASSUME NEW c \in Clients, Events!Leave(c) PROVE Events!TypeOK'
  <2>1. /\ Only(c) /\ queue' = queue /\ since' = since /\ sent' = sent
        /\ getter'[c] = "none" /\ item'[c] = Nothing /\ phase'[c] = "closed"
        /\ shutdown' = shutdown /\ pings' = pings
    BY <1>8 DEF Events!Leave, Only, Streams
  <2>2. phase'[c] \in Events!Phases /\ getter'[c] \in Events!Getters
    BY <2>1 DEF Events!Phases, Events!Getters
  <2> QED
    BY <1>0, <1>a, <2>1, <2>2, ClientTyped
<1> QED
  BY <1>1, <1>2, <1>3, <1>4, <1>5, <1>6, <1>7, <1>8 DEF Events!Next

LEMMA EventTypesHold == Spec => []Events!TypeOK
<1>1. Events!Init => Streams
  BY DEF Events!Init, Streams, Shape, Whole, Events!Subscribed
<1>2. Events!Init => Events!TypeOK
  <2>1. <<>> \in Seq(1 .. 0) /\ 0 \in 0 .. 0
    OBVIOUS
  <2>2. MaxEvents \in Nat /\ MaxPings \in Nat
    BY ComponentConstants DEF Events!StreamConstants
  <2>3. ASSUME Events!Init PROVE Events!TypeOK
    <3>1. published = 0 /\ pings = 0
      BY <2>3 DEF Events!Init
    <3>5. shutdown \in BOOLEAN
      BY <2>3 DEF Events!Init
    <3>2. ASSUME NEW c \in Clients
          PROVE  /\ queue[c] = <<>> /\ sent[c] = <<>> /\ since[c] = 0 /\ item[c] = Nothing
                 /\ phase[c] \in Events!Phases /\ getter[c] \in Events!Getters
      BY <2>3 DEF Events!Init, Events!Phases, Events!Getters
    <3>3. published \in 0 .. MaxEvents /\ pings \in 0 .. MaxPings
      BY <2>2, <3>1
    <3>4. ASSUME NEW c \in Clients
          PROVE  /\ queue[c] \in Seq(1 .. published) /\ sent[c] \in Seq(1 .. published)
                 /\ since[c] \in 0 .. published
      BY <2>1, <3>1, <3>2
    <3> QED
      BY <3>2, <3>3, <3>4, <3>5 DEF Events!TypeOK
  <2> QED
    BY <2>3
<1>3. Streams /\ Events!TypeOK /\ [Events!Next]_events => Streams' /\ Events!TypeOK'
  BY StreamsStep, EventTypesStep
<1> QED
  BY <1>1, <1>2, <1>3, EachAlone, PTL
-----------------------------------------------------------------------------
(***************************************************************************)
(* The Weixin channel.                                                     *)
(***************************************************************************)

Job == [kind : {"poll", "login"}, account : Accounts,
        at : {"asking", "handling", "pause", "over", "failed"},
        cancelled : BOOLEAN, batch : Seq(Nat)]
LivePoll(i) == Weixin!Live(i) /\ task[i].kind = "poll"
Handling(i) == Weixin!Live(i) /\ task[i].at = "handling"

\* What the proofs need to know of the tables.
Tables ==
  /\ task \in Seq(Job)
  /\ DOMAIN polls = Accounts /\ \A a \in Accounts : polls[a] \in DOMAIN task \cup {None}
  /\ DOMAIN cursor = Accounts /\ DOMAIN arrived = Accounts /\ DOMAIN handled = Accounts
  /\ \A a \in Accounts :
       /\ cursor[a] \in Nat /\ arrived[a] \in Nat /\ cursor[a] <= arrived[a]
       /\ handled[a] \in Seq(Nat)
\* No account is polled twice; only polls handle messages.
Tracked ==
  /\ \A i \in DOMAIN task : LivePoll(i) => polls[task[i].account] = i
  /\ \A i \in DOMAIN task : task[i].at = "handling" => task[i].kind = "poll"
\* What has been handed on is in order and not past the cursor, and so is what
\* the poll of the account still holds, which comes after it.
Rising(s) == \A j, k \in 1 .. Len(s) : j < k => s[j] < s[k]
UpTo(s, n) == \A k \in 1 .. Len(s) : s[k] <= n
Precedes(s, t) == \A j \in 1 .. Len(s), k \in 1 .. Len(t) : s[j] < t[k]
Passed(a) == Rising(handled[a]) /\ UpTo(handled[a], cursor[a])
Ahead(i) ==
  LET a == task[i].account IN
  Rising(task[i].batch) /\ UpTo(task[i].batch, cursor[a])
    /\ Precedes(handled[a], task[i].batch)
InTheirOrder ==
  /\ \A a \in Accounts : Passed(a)
  /\ \A i \in DOMAIN task : Handling(i) => Ahead(i)
Channel == Tables /\ Tracked /\ InTheirOrder

\* A step that starts nothing and takes up no messages keeps all of this.
Quiet(i) ==
  /\ task'[i].kind = task[i].kind /\ task'[i].account = task[i].account
  /\ LivePoll(i)' => LivePoll(i) /\ polls'[task[i].account] = polls[task[i].account]
  /\ task'[i].at = "handling" => task[i].at = "handling"
  /\ Handling(i)' => Handling(i) /\ task'[i].batch = task[i].batch
LEMMA QuietSteps ==
  ASSUME Channel, task' \in Seq(Job), Len(task') = Len(task),
         \A i \in DOMAIN task : Quiet(i),
         DOMAIN polls' = Accounts, \A a \in Accounts : polls'[a] \in DOMAIN task \cup {None},
         cursor' = cursor, handled' = handled, DOMAIN arrived' = Accounts,
         \A a \in Accounts : arrived'[a] \in Nat /\ cursor[a] <= arrived'[a]
  PROVE  Channel'
<1>0. DOMAIN task' = DOMAIN task
  <2>1. DOMAIN task = 1 .. Len(task) /\ DOMAIN task' = 1 .. Len(task')
    BY DEF Channel, Tables
  <2> QED
    BY <2>1
<1>1. Tables'
  BY <1>0 DEF Channel, Tables
<1>2. Tracked'
  BY <1>0 DEF Channel, Tracked, Quiet
<1>3. ASSUME NEW a \in Accounts PROVE Passed(a)'
  BY DEF Channel, InTheirOrder, Passed
<1>4. ASSUME NEW i \in DOMAIN task', Handling(i)' PROVE Ahead(i)'
  <2>1. Quiet(i) /\ Handling(i) /\ Ahead(i)
    BY <1>0, <1>4 DEF Channel, InTheirOrder, Quiet
  <2>2. task'[i].batch = task[i].batch /\ task'[i].account = task[i].account
    BY <1>4, <2>1 DEF Quiet
  <2> QED
    BY <2>1, <2>2 DEF Ahead
<1> QED
  BY <1>1, <1>2, <1>3, <1>4 DEF Channel, InTheirOrder

\* A new task asks first; a new poll takes the place of one that has ended.
LEMMA MakeSteps ==
  ASSUME Channel, NEW r \in Job, task' = Append(task, r), r.at = "asking",
         DOMAIN polls' = Accounts,
         \A a \in Accounts :
           \/ polls'[a] = polls[a] /\ (r.kind = "poll" => r.account # a)
           \/ /\ polls'[a] = Len(task) + 1 /\ r.account = a
              /\ \A i \in DOMAIN task : LivePoll(i) => task[i].account # a,
         cursor' = cursor, handled' = handled, arrived' = arrived
  PROVE  Channel'
<1>0. task \in Seq(Job) /\ DOMAIN task = 1 .. Len(task) /\ Len(task) \in Nat
  BY DEF Channel, Tables
<1>1. /\ task' \in Seq(Job) /\ DOMAIN task' = DOMAIN task \cup {Len(task) + 1}
      /\ task'[Len(task) + 1] = r /\ \A i \in DOMAIN task : task'[i] = task[i]
      /\ Len(task) + 1 \notin DOMAIN task
  BY <1>0
<1>2. Tables'
  BY <1>0, <1>1 DEF Channel, Tables
<1>3. ASSUME NEW i \in DOMAIN task
      PROVE  /\ LivePoll(i)' <=> LivePoll(i)
             /\ Handling(i)' <=> Handling(i)
             /\ task'[i] = task[i]
  BY <1>1 DEF LivePoll, Handling, Weixin!Live, Weixin!Done
<1>4. Tracked'
  <2>1. ASSUME NEW i \in DOMAIN task', LivePoll(i)' PROVE polls'[task'[i].account] = i
    <3>1. CASE i \in DOMAIN task
      <4>0. task[i].account \in Accounts
        <5>1. task[i] \in Job
          BY <1>0, <3>1
        <5> QED
          BY <5>1 DEF Job
      <4>1. /\ LivePoll(i) /\ task'[i] = task[i] /\ task[i].account \in Accounts
            /\ polls[task[i].account] = i
        BY <4>0, <1>3, <2>1, <3>1 DEF Channel, Tracked
      <4> QED
        BY <3>1, <4>1
    <3>2. CASE i = Len(task) + 1
      <4>1. r.kind = "poll" /\ r.account \in Accounts
        BY <1>1, <2>1, <3>2 DEF LivePoll, Job
      <4> QED
        BY <1>1, <3>2, <4>1
    <3> QED
      BY <1>1, <3>1, <3>2
  <2>2. ASSUME NEW i \in DOMAIN task', task'[i].at = "handling" PROVE task'[i].kind = "poll"
    BY <1>1, <2>2 DEF Channel, Tracked
  <2> QED
    BY <2>1, <2>2 DEF Tracked
<1>5. ASSUME NEW a \in Accounts PROVE Passed(a)'
  BY DEF Channel, InTheirOrder, Passed
<1>6. ASSUME NEW i \in DOMAIN task', Handling(i)' PROVE Ahead(i)'
  <2>1. i # Len(task) + 1
    BY <1>1, <1>6 DEF Handling
  <2>2. Handling(i) /\ Ahead(i) /\ task'[i] = task[i]
    BY <1>1, <1>3, <1>6, <2>1 DEF Channel, InTheirOrder
  <2> QED
    BY <2>2 DEF Ahead
<1> QED
  BY <1>2, <1>4, <1>5, <1>6 DEF Channel, InTheirOrder

LEMMA MakesJob ==
  ASSUME NEW kind \in {"poll", "login"}, NEW a \in Accounts, Weixin!Make(kind, a)
  PROVE  \E r \in Job : /\ task' = Append(task, r) /\ r.at = "asking"
                        /\ r.kind = kind /\ r.account = a
<1> DEFINE r == [kind |-> kind, account |-> a, at |-> "asking", cancelled |-> FALSE,
                 batch |-> <<>>]
<1>1. <<>> \in Seq(Nat)
  OBVIOUS
<1>2. r \in Job /\ r.at = "asking" /\ r.kind = kind /\ r.account = a
  BY <1>1 DEF Job
<1>3. task' = Append(task, r)
  BY DEF Weixin!Make
<1> HIDE DEF r
<1> QED
  BY <1>2, <1>3

LEMMA StartSteps ==
  ASSUME Channel, NEW a \in Accounts, Weixin!StartAccount(a)
  PROVE  Channel'
<1>0. /\ task \in Seq(Job) /\ Len(task) \in Nat /\ DOMAIN polls = Accounts
      /\ cursor' = cursor /\ handled' = handled /\ arrived' = arrived
      /\ DOMAIN arrived = Accounts /\ \A b \in Accounts : arrived[b] \in Nat /\ cursor[b] <= arrived[b]
  BY DEF Channel, Tables, Weixin!StartAccount, Weixin!files
<1>1. CASE Weixin!Polled(a) /\ UNCHANGED <<task, polls, summary>>
  <2>1. \A i \in DOMAIN task : Quiet(i)
    BY <1>1 DEF Quiet, LivePoll, Handling, Weixin!Live, Weixin!Done
  <2> QED
    BY <1>0, <1>1, <2>1, QuietSteps DEF Channel, Tables
<1>2. CASE /\ ~Weixin!Polled(a) /\ Weixin!Make("poll", a)
           /\ polls' = [polls EXCEPT ![a] = Len(task) + 1]
  <2>1. PICK r \in Job : /\ task' = Append(task, r) /\ r.at = "asking"
                         /\ r.kind = "poll" /\ r.account = a
    BY <1>2, MakesJob
  <2>2. ASSUME NEW i \in DOMAIN task, LivePoll(i), task[i].account = a PROVE FALSE
    <3>1. polls[a] = i /\ i # None
      BY <1>0, <2>2, ComponentConstants DEF Channel, Tracked, Weixin!WeixinConstants
    <3> QED
      BY <1>2, <2>2, <3>1 DEF Weixin!Polled, LivePoll, Weixin!Live
  <2> QED
    BY <1>0, <1>2, <2>1, <2>2, MakeSteps
<1> QED
  BY <1>1, <1>2 DEF Weixin!StartAccount

LEMMA LoginSteps ==
  ASSUME Channel, NEW a \in Accounts, Weixin!Login(a)
  PROVE  Channel'
<1>1. PICK r \in Job : task' = Append(task, r) /\ r.at = "asking" /\ r.kind = "login"
  BY MakesJob DEF Weixin!Login
<1>2. /\ polls' = polls /\ DOMAIN polls = Accounts
      /\ cursor' = cursor /\ handled' = handled /\ arrived' = arrived
  BY DEF Channel, Tables, Weixin!Login, Weixin!files
<1> QED
  BY <1>1, <1>2, MakeSteps

\* A task that stops, pauses or ends.
LEMMA OneRests ==
  ASSUME Channel, NEW i \in DOMAIN task, NEW r \in Job, task' = [task EXCEPT ![i] = r],
         r.kind = task[i].kind, r.account = task[i].account, r.at # "handling",
         r.at \notin {"over", "failed"} => Weixin!Live(i) /\ ~r.cancelled,
         polls' = polls, cursor' = cursor, handled' = handled, arrived' = arrived
  PROVE  Channel'
<1>0. task \in Seq(Job)
  BY DEF Channel, Tables
<1>1. task' \in Seq(Job) /\ Len(task') = Len(task)
  BY <1>0
<1>2. task'[i] = r /\ \A j \in DOMAIN task \ {i} : task'[j] = task[j]
  BY <1>0
<1>3. ASSUME NEW j \in DOMAIN task PROVE Quiet(j)
  <2>1. CASE j = i
    BY <1>2, <2>1 DEF Quiet, LivePoll, Handling, Weixin!Live, Weixin!Done
  <2>2. CASE j # i
    BY <1>2, <2>2 DEF Quiet, LivePoll, Handling, Weixin!Live, Weixin!Done
  <2> QED
    BY <2>1, <2>2
<1> QED
  BY <1>1, <1>3, QuietSteps DEF Channel, Tables

LEMMA JobAt ==
  ASSUME Channel, NEW i \in DOMAIN task
  PROVE  /\ task[i] \in Job
         /\ DOMAIN task[i] = {"kind", "account", "at", "cancelled", "batch"}
         /\ task[i].account \in Accounts /\ task[i].batch \in Seq(Nat)
<1>1. task[i] \in Job
  BY DEF Channel, Tables
<1> QED
  BY <1>1 DEF Job

LEMMA PauseSteps ==
  ASSUME Channel, NEW i \in DOMAIN task,
         Weixin!PollPauses(i) \/ Weixin!PollFails(i) \/ Weixin!Dies(i)
           \/ \E b \in Accounts, ends \in {"confirmed", "expired", "error"} :
                Weixin!WatchEnds(i, b, ends)
  PROVE  Channel'
<1>0. task[i] \in Job
  BY JobAt
<1>1. /\ polls' = polls /\ cursor' = cursor /\ handled' = handled /\ arrived' = arrived
  BY DEF Weixin!PollPauses, Weixin!PollFails, Weixin!Dies, Weixin!WatchEnds, Weixin!files
<1>2. CASE Weixin!PollPauses(i)
  <2>1. PICK at \in {"pause", "asking"} : task' = [task EXCEPT ![i].at = at]
    BY <1>2 DEF Weixin!PollPauses
  <2> DEFINE r == [task[i] EXCEPT !.at = at]
  <2>2. /\ r \in Job /\ r.kind = task[i].kind /\ r.account = task[i].account /\ r.at = at
        /\ r.cancelled = task[i].cancelled
    BY <1>0 DEF Job
  <2>3. task' = [task EXCEPT ![i] = r]
    BY <2>1
  <2>4. Weixin!Live(i)
    BY <1>2 DEF Weixin!PollPauses
  <2> HIDE DEF r
  <2> QED
    BY <1>1, <2>1, <2>2, <2>3, <2>4, OneRests DEF Weixin!Live
<1>3. CASE Weixin!PollFails(i)
  <2>1. PICK at \in {"pause", "failed"} :
          task' = [task EXCEPT ![i].at = at, ![i].batch = <<>>]
    BY <1>3 DEF Weixin!PollFails
  <2> DEFINE r == [task[i] EXCEPT !.at = at, !.batch = <<>>]
  <2>2. /\ r \in Job /\ r.kind = task[i].kind /\ r.account = task[i].account /\ r.at = at
        /\ r.cancelled = task[i].cancelled
    <3>1. <<>> \in Seq(Nat)
      OBVIOUS
    <3> QED
      BY <1>0, <3>1 DEF Job
  <2>3. task' = [task EXCEPT ![i] = r]
    BY <2>1
  <2>4. Weixin!Live(i)
    BY <1>3 DEF Weixin!PollFails
  <2> HIDE DEF r
  <2> QED
    BY <1>1, <2>1, <2>2, <2>3, <2>4, OneRests DEF Weixin!Live
<1>4. CASE \/ Weixin!Dies(i)
           \/ \E b \in Accounts, ends \in {"confirmed", "expired", "error"} :
                Weixin!WatchEnds(i, b, ends)
  <2> DEFINE r == [task[i] EXCEPT !.at = "over", !.cancelled = FALSE, !.batch = <<>>]
  <2>2. /\ r \in Job /\ r.kind = task[i].kind /\ r.account = task[i].account /\ r.at = "over"
    <3>1. <<>> \in Seq(Nat)
      OBVIOUS
    <3> QED
      BY <1>0, <3>1 DEF Job
  <2>3. task' = [task EXCEPT ![i] = r]
    BY <1>4 DEF Weixin!Dies, Weixin!WatchEnds, Weixin!Over
  <2> HIDE DEF r
  <2> QED
    BY <1>1, <2>2, <2>3, OneRests
<1> QED
  BY <1>2, <1>3, <1>4

LEMMA StopSteps ==
  ASSUME Channel, NEW a \in Accounts, Weixin!StopAccount(a)
  PROVE  Channel'
<1>0. /\ cursor' = cursor /\ handled' = handled /\ arrived' = arrived
      /\ polls' = [polls EXCEPT ![a] = None] /\ DOMAIN polls = Accounts
      /\ task \in Seq(Job) /\ \A b \in Accounts : polls[b] \in DOMAIN task \cup {None}
  BY DEF Channel, Tables, Weixin!StopAccount, Weixin!files
<1>1. CASE polls[a] = None /\ task' = task
  <2>1. ASSUME NEW i \in DOMAIN task PROVE Quiet(i)
    <3>1. LivePoll(i) => task[i].account # a
      <4>1. i # None
        BY <1>0, ComponentConstants DEF Weixin!WeixinConstants
      <4> QED
        BY <1>1, <4>1 DEF Channel, Tracked
    <3>2. task[i].account \in Accounts
      BY JobAt
    <3> QED
      BY <1>0, <1>1, <3>1, <3>2 DEF Quiet, LivePoll, Handling, Weixin!Live, Weixin!Done
  <2> QED
    BY <1>0, <1>1, <2>1, QuietSteps DEF Channel, Tables
<1>2. CASE /\ polls[a] # None
           /\ task' = [task EXCEPT ![polls[a]].cancelled = ~Weixin!Done(polls[a])]
  <2>1. PICK p \in DOMAIN task : p = polls[a]
    BY <1>0, <1>2
  <2> DEFINE r == [task[p] EXCEPT !.cancelled = ~Weixin!Done(p)]
  <2>2. /\ r \in Job /\ r.kind = task[p].kind /\ r.account = task[p].account
        /\ r.at = task[p].at /\ r.batch = task[p].batch /\ r.cancelled = ~Weixin!Done(p)
    <3>1. (~Weixin!Done(p)) \in BOOLEAN
      OBVIOUS
    <3>2. task[p] \in Job
      BY <1>0
    <3> QED
      BY <3>1, <3>2 DEF Job
  <2>3. task' = [task EXCEPT ![p] = r]
    BY <1>2, <2>1
  <2> HIDE DEF r
  <2>4. task' \in Seq(Job) /\ Len(task') = Len(task)
    BY <1>0, <2>2, <2>3
  <2>5. task'[p] = r /\ \A j \in DOMAIN task \ {p} : task'[j] = task[j]
    BY <1>0, <2>3
  <2>6. ASSUME NEW i \in DOMAIN task PROVE Quiet(i)
    <3>1. CASE i = p
      <4>1. ~LivePoll(i)' /\ ~Handling(i)'
        BY <2>2, <2>5, <3>1 DEF LivePoll, Handling, Weixin!Live, Weixin!Done
      <4> QED
        BY <2>2, <2>5, <3>1, <4>1 DEF Quiet
    <3>2. CASE i # p
      <4>1. task'[i] = task[i]
        BY <2>5, <3>2
      <4>2. (LivePoll(i)' <=> LivePoll(i)) /\ (Handling(i)' <=> Handling(i))
        BY <4>1 DEF LivePoll, Handling, Weixin!Live, Weixin!Done
      <4>3. LivePoll(i) => polls'[task[i].account] = polls[task[i].account]
        BY <1>0, <2>1, <3>2, JobAt DEF Channel, Tracked
      <4> QED
        BY <4>1, <4>2, <4>3 DEF Quiet
    <3> QED
      BY <3>1, <3>2
  <2> QED
    BY <1>0, <2>4, <2>6, QuietSteps DEF Channel, Tables
<1> QED
  BY <1>1, <1>2 DEF Weixin!StopAccount

\* The manager cancels logins; a crash ends every task.
LEMMA ManagerSteps ==
  ASSUME Channel, todo \subseteq Accounts,
         \/ Weixin!ManagerStart \/ Weixin!ManagerStarts \/ Weixin!ManagerStop
         \/ Weixin!ManagerStops \/ Weixin!Crash
  PROVE  Channel'
<1>0. /\ task \in Seq(Job) /\ DOMAIN task = 1 .. Len(task) /\ Len(task) \in Nat
      /\ DOMAIN polls = Accounts /\ DOMAIN arrived = Accounts
      /\ \A b \in Accounts : /\ polls[b] \in DOMAIN task \cup {None}
                             /\ arrived[b] \in Nat /\ cursor[b] <= arrived[b]
  BY DEF Channel, Tables
<1>1. ASSUME UNCHANGED <<task, polls, cursor, handled, arrived>> PROVE Channel'
  BY <1>1 DEF Channel, Tables, Tracked, InTheirOrder, Passed, Ahead, LivePoll, Handling,
              Weixin!Live, Weixin!Done
<1>2. CASE Weixin!ManagerStart \/ Weixin!ManagerStop
  BY <1>1, <1>2 DEF Weixin!ManagerStart, Weixin!ManagerStop, Weixin!files
<1>3. CASE Weixin!ManagerStarts
  <2>1. \/ UNCHANGED <<task, polls, cursor, handled, arrived>>
        \/ \E a \in todo : Weixin!StartAccount(a) /\ a \in Accounts
    BY <1>3 DEF Weixin!ManagerStarts, Weixin!files
  <2> QED
    BY <1>1, <2>1, StartSteps
<1>4. CASE Weixin!ManagerStops
  <2>1. CASE \E a \in todo : Weixin!StopAccount(a)
    BY <2>1, StopSteps
  <2>2. CASE todo = {} /\ polls' = polls /\ cursor' = cursor /\ handled' = handled
             /\ arrived' = arrived /\
             task' = [i \in DOMAIN task |->
               IF \E a \in Accounts : logins[a] = i
               THEN [task[i] EXCEPT !.cancelled = TRUE] ELSE task[i]]
    <3>1. ASSUME NEW i \in DOMAIN task
          PROVE  /\ task'[i] \in Job /\ task'[i].kind = task[i].kind
                 /\ task'[i].account = task[i].account /\ task'[i].at = task[i].at
                 /\ task'[i].batch = task[i].batch
                 /\ ~task'[i].cancelled => ~task[i].cancelled
      <4>1. task[i] \in Job /\ task'[i] \in {task[i], [task[i] EXCEPT !.cancelled = TRUE]}
        BY <1>0, <2>2
      <4> QED
        BY <4>1 DEF Job
    <3>2. task' \in Seq(Job) /\ Len(task') = Len(task)
      <4>1. DOMAIN task' = 1 .. Len(task) /\ task' = [i \in 1 .. Len(task) |-> task'[i]]
        BY <1>0, <2>2
      <4> QED
        BY <1>0, <3>1, <4>1
    <3>3. ASSUME NEW i \in DOMAIN task PROVE Quiet(i)
      BY <2>2, <3>1 DEF Quiet, LivePoll, Handling, Weixin!Live, Weixin!Done
    <3> QED
      BY <1>0, <2>2, <3>2, <3>3, QuietSteps
  <2> QED
    BY <1>4, <2>1, <2>2 DEF Weixin!ManagerStops, Weixin!files
<1>5. CASE Weixin!Crash
  <2>1. /\ polls' = [a \in Accounts |-> None] /\ cursor' = cursor /\ handled' = handled
        /\ arrived' = arrived /\ task' = [i \in DOMAIN task |-> Weixin!Over(i)]
    BY <1>5 DEF Weixin!Crash, Weixin!files
  <2>2. ASSUME NEW i \in DOMAIN task
        PROVE  /\ task'[i] \in Job /\ task'[i].kind = task[i].kind
               /\ task'[i].account = task[i].account /\ task'[i].at = "over"
    <3>1. task[i] \in Job /\ <<>> \in Seq(Nat)
      BY <1>0
    <3>2. task'[i] = [task[i] EXCEPT !.at = "over", !.cancelled = FALSE, !.batch = <<>>]
      BY <2>1 DEF Weixin!Over
    <3> QED
      BY <3>1, <3>2 DEF Job
  <2>3. task' \in Seq(Job) /\ Len(task') = Len(task)
    <3>1. DOMAIN task' = 1 .. Len(task) /\ task' = [i \in 1 .. Len(task) |-> task'[i]]
      BY <1>0, <2>1
    <3> QED
      BY <1>0, <2>2, <3>1
  <2>4. ASSUME NEW i \in DOMAIN task PROVE Quiet(i)
    BY <2>2 DEF Quiet, LivePoll, Handling, Weixin!Live, Weixin!Done
  <2> QED
    BY <1>0, <2>1, <2>3, <2>4, QuietSteps
<1> QED
  BY <1>2, <1>3, <1>4, <1>5

LEMMA TodoStep ==
  ASSUME todo \subseteq Accounts, [Weixin!Next]_weixin
  PROVE  todo' \subseteq Accounts
<1>1. CASE \/ Weixin!ManagerStart \/ Weixin!ManagerStarts \/ Weixin!ManagerStop
           \/ Weixin!ManagerStops \/ Weixin!Crash \/ UNCHANGED weixin
  BY <1>1 DEF Weixin!ManagerStart, Weixin!ManagerStarts, Weixin!ManagerStop,
              Weixin!ManagerStops, Weixin!Crash, weixin
<1>2. CASE \E a \in Accounts :
             \/ Weixin!StopEnds(a) \/ Weixin!Arrive(a) \/ Weixin!Login(a) \/ Weixin!Send(a)
             \/ UNCHANGED Weixin!control
  BY <1>2 DEF Weixin!StopEnds, Weixin!Arrive, Weixin!Login, Weixin!Send, Weixin!control
<1>3. CASE \E i \in DOMAIN task :
             \/ Weixin!PollAnswers(i) \/ Weixin!Handle(i) \/ Weixin!PollPauses(i)
             \/ Weixin!PollFails(i) \/ Weixin!Dies(i)
             \/ \E b \in Accounts, ends \in {"confirmed", "expired", "error"} :
                  Weixin!WatchEnds(i, b, ends)
  BY <1>3 DEF Weixin!PollAnswers, Weixin!Handle, Weixin!PollPauses, Weixin!PollFails,
              Weixin!Dies, Weixin!WatchEnds, Weixin!control
<1> QED
  BY <1>1, <1>2, <1>3 DEF Weixin!Next

\* The answer to a poll starts after the cursor, and no other poll of the
\* account is at work on an earlier one.
LEMMA AnswerSteps ==
  ASSUME Channel, NEW i \in DOMAIN task, Weixin!PollAnswers(i)
  PROVE  Channel'
<1>0. PICK a \in Accounts : a = task[i].account
  BY JobAt
<1>1. PICK c \in Nat, n \in Nat : c = cursor[a] /\ n = arrived[a] /\ c <= n
  BY DEF Channel, Tables
<1>2. LivePoll(i) /\ task[i].at = "asking" /\ polls[a] = i
  BY <1>0 DEF Weixin!PollAnswers, LivePoll, Channel, Tracked
<1>3. PICK t \in Seq(Nat) : t = [k \in 1 .. n - c |-> c + k] /\ Len(t) = n - c
  <2>1. PICK d \in Nat : d = n - c
    BY <1>1
  <2>2. [k \in 1 .. d |-> c + k] \in Seq(Nat) /\ Len([k \in 1 .. d |-> c + k]) = d
    OBVIOUS
  <2> QED
    BY <2>1, <2>2
<1>4. Rising(t) /\ UpTo(t, n) /\ \A k \in 1 .. Len(t) : c < t[k]
  BY <1>1, <1>3 DEF Rising, UpTo
<1> DEFINE r == [task[i] EXCEPT !.at = "handling", !.batch = t]
<1>5. /\ r \in Job /\ r.kind = "poll" /\ r.account = a /\ r.batch = t
      /\ r.cancelled = task[i].cancelled /\ r.at = "handling"
  <2>1. task[i] \in Job /\ task[i].kind = "poll"
    BY <1>2, JobAt DEF LivePoll
  <2> QED
    BY <1>0, <2>1 DEF Job
<1>6. /\ task' = [task EXCEPT ![i] = r] /\ cursor' = [cursor EXCEPT ![a] = n]
      /\ polls' = polls /\ handled' = handled /\ arrived' = arrived
  BY <1>0, <1>1, <1>3 DEF Weixin!PollAnswers, Weixin!NextCursor
<1> HIDE DEF r
<1>7. task \in Seq(Job)
  BY DEF Channel, Tables
<1>8. /\ task' \in Seq(Job) /\ DOMAIN task' = DOMAIN task
      /\ task'[i] = r /\ \A j \in DOMAIN task \ {i} : task'[j] = task[j]
  BY <1>5, <1>6, <1>7
<1>9. Tables'
  BY <1>1, <1>6, <1>8 DEF Channel, Tables
<1>10. ASSUME NEW j \in DOMAIN task
       PROVE  /\ LivePoll(j)' => LivePoll(j) /\ task'[j].account = task[j].account
              /\ Handling(j)' /\ j # i => Handling(j) /\ task'[j] = task[j]
                                            /\ task[j].account # a
  <2>1. CASE j = i
    BY <1>0, <1>2, <1>5, <1>8, <2>1
  <2>2. CASE j # i
    <3>1. task'[j] = task[j]
      BY <1>8, <2>2
    <3>2. (LivePoll(j)' <=> LivePoll(j)) /\ (Handling(j)' <=> Handling(j))
      BY <3>1 DEF LivePoll, Handling, Weixin!Live, Weixin!Done
    <3>3. Handling(j) => task[j].account # a
      BY <1>2, <2>2 DEF Handling, LivePoll, Channel, Tracked
    <3> QED
      BY <2>2, <3>1, <3>2, <3>3
  <2> QED
    BY <2>1, <2>2
<1>11. Tracked'
  BY <1>5, <1>6, <1>8, <1>10 DEF Channel, Tracked
<1>12. ASSUME NEW b \in Accounts PROVE Passed(b)'
  <2>1. handled'[b] = handled[b] /\ Rising(handled[b]) /\ UpTo(handled[b], cursor[b])
    BY <1>6 DEF Channel, InTheirOrder, Passed
  <2>2. cursor[b] \in Nat /\ handled[b] \in Seq(Nat) /\ cursor'[b] \in Nat
          /\ cursor[b] <= cursor'[b]
    BY <1>1, <1>6 DEF Channel, Tables
  <2>3. UpTo(handled[b], cursor'[b])
    BY <2>1, <2>2 DEF UpTo
  <2> QED
    BY <2>1, <2>3 DEF Passed
<1>13. ASSUME NEW j \in DOMAIN task, Handling(j)' PROVE Ahead(j)'
  <2>1. CASE j = i
    <3>1. UpTo(handled[a], c) /\ handled[a] \in Seq(Nat)
      BY <1>1 DEF Channel, Tables, InTheirOrder, Passed
    <3>2. Precedes(handled[a], t)
      <4>1. ASSUME NEW k \in 1 .. Len(handled[a]), NEW m \in 1 .. Len(t)
            PROVE  handled[a][k] < t[m]
        <5>1. handled[a][k] \in Nat /\ t[m] \in Nat
          BY <3>1
        <5>2. handled[a][k] <= c
          BY <3>1 DEF UpTo
        <5>3. c < t[m]
          BY <1>4
        <5> QED
          BY <5>1, <5>2, <5>3
      <4> QED
        BY <4>1 DEF Precedes
    <3>3. cursor'[a] = n
      BY <1>6 DEF Channel, Tables
    <3> QED
      BY <1>4, <1>5, <1>6, <1>8, <2>1, <3>2, <3>3 DEF Ahead
  <2>2. CASE j # i
    <3>1. Ahead(j) /\ task'[j] = task[j] /\ task[j].account # a /\ task[j].account \in Accounts
      BY <1>10, <1>13, <2>2, JobAt DEF Channel, InTheirOrder
    <3>2. cursor'[task[j].account] = cursor[task[j].account]
      BY <1>6, <3>1
    <3> QED
      BY <1>6, <3>1, <3>2 DEF Ahead
  <2> QED
    BY <2>1, <2>2
<1> QED
  BY <1>8, <1>9, <1>11, <1>12, <1>13 DEF Channel, InTheirOrder

\* What is left of an answer still comes after all that has been handed on.
LEMMA HandedOn ==
  ASSUME NEW h \in Seq(Nat), NEW t \in Seq(Nat), NEW n \in Nat, t # <<>>,
         Rising(h), UpTo(h, n), Rising(t), UpTo(t, n), Precedes(h, t)
  PROVE  /\ Tail(t) \in Seq(Nat) /\ Rising(Tail(t)) /\ UpTo(Tail(t), n)
         /\ Precedes(h, Tail(t))
         /\ Append(h, Head(t)) \in Seq(Nat) /\ Rising(Append(h, Head(t)))
         /\ UpTo(Append(h, Head(t)), n) /\ Precedes(Append(h, Head(t)), Tail(t))
<1>1. /\ Tail(t) \in Seq(Nat) /\ Len(Tail(t)) = Len(t) - 1 /\ Len(t) \in Nat /\ Len(t) >= 1
      /\ \A k \in 1 .. Len(Tail(t)) : Tail(t)[k] = t[k + 1] /\ k + 1 \in 1 .. Len(t)
      /\ Head(t) = t[1] /\ Head(t) \in Nat /\ 1 \in 1 .. Len(t)
  OBVIOUS
<1>2. PICK x \in Nat : x = Head(t)
  BY <1>1
<1>3. PICK g \in Seq(Nat) : g = Append(h, x)
  <2>1. Append(h, x) \in Seq(Nat)
    OBVIOUS
  <2> QED
    BY <2>1
<1>4. /\ Len(g) = Len(h) + 1 /\ Len(h) \in Nat /\ g[Len(h) + 1] = x
      /\ \A k \in 1 .. Len(h) : g[k] = h[k] /\ h[k] \in Nat
      /\ \A k \in 1 .. Len(g) : k \in 1 .. Len(h) \/ k = Len(h) + 1
  BY <1>3
<1>5. \A k \in 1 .. Len(h) : h[k] < x
  BY <1>1, <1>2 DEF Precedes
<1>6. PICK u \in Seq(Nat) : u = Tail(t)
  BY <1>1
<1>7. \A k \in 1 .. Len(u) : x < u[k] /\ k + 1 \in 1 .. Len(t) /\ u[k] = t[k + 1]
  <2>1. ASSUME NEW k \in 1 .. Len(u)
        PROVE  x < u[k] /\ k + 1 \in 1 .. Len(t) /\ u[k] = t[k + 1]
    <3>1. u[k] = t[k + 1] /\ k + 1 \in 1 .. Len(t) /\ 1 < k + 1
      BY <1>1, <1>6
    <3> QED
      BY <1>1, <1>2, <3>1 DEF Rising
  <2> QED
    BY <2>1
<1>8. Rising(u)
  <2>1. ASSUME NEW j \in 1 .. Len(u), NEW k \in 1 .. Len(u), j < k PROVE u[j] < u[k]
    <3>1. j + 1 < k + 1
      BY <2>1
    <3> QED
      BY <1>7, <3>1 DEF Rising
  <2> QED
    BY <2>1 DEF Rising
<1>9. UpTo(u, n)
  BY <1>7 DEF UpTo
<1>10. Precedes(h, u)
  BY <1>7 DEF Precedes
<1>11. Rising(g)
  <2>1. ASSUME NEW j \in 1 .. Len(g), NEW k \in 1 .. Len(g), j < k PROVE g[j] < g[k]
    <3>1. j \in 1 .. Len(h)
      BY <1>4, <2>1
    <3>2. CASE k \in 1 .. Len(h)
      BY <1>4, <2>1, <3>1, <3>2 DEF Rising
    <3>3. CASE k = Len(h) + 1
      BY <1>4, <1>5, <3>1, <3>3
    <3> QED
      BY <1>4, <3>2, <3>3
  <2> QED
    BY <2>1 DEF Rising
<1>12. UpTo(g, n)
  <2>1. x <= n
    BY <1>1, <1>2 DEF UpTo
  <2> QED
    BY <1>4, <2>1 DEF UpTo
<1>13. Precedes(g, u)
  <2>1. ASSUME NEW j \in 1 .. Len(g), NEW k \in 1 .. Len(u) PROVE g[j] < u[k]
    <3>1. CASE j \in 1 .. Len(h)
      BY <1>4, <1>10, <3>1 DEF Precedes
    <3>2. CASE j = Len(h) + 1
      BY <1>4, <1>7, <3>2
    <3> QED
      BY <1>4, <3>1, <3>2
  <2> QED
    BY <2>1 DEF Precedes
<1> QED
  BY <1>2, <1>3, <1>6, <1>8, <1>9, <1>10, <1>11, <1>12, <1>13

LEMMA HandleSteps ==
  ASSUME Channel, NEW i \in DOMAIN task, Weixin!Handle(i)
  PROVE  Channel'
<1>0. PICK a \in Accounts : a = task[i].account
  BY JobAt
<1>1. PICK t \in Seq(Nat), h \in Seq(Nat), n \in Nat :
        t = task[i].batch /\ h = handled[a] /\ n = cursor[a]
  BY JobAt DEF Channel, Tables
<1>2. Handling(i) /\ LivePoll(i) /\ polls[a] = i /\ t # <<>>
  BY <1>0, <1>1 DEF Weixin!Handle, Handling, LivePoll, Channel, Tracked
<1>3. Rising(h) /\ UpTo(h, n) /\ Rising(t) /\ UpTo(t, n) /\ Precedes(h, t)
  BY <1>0, <1>1, <1>2 DEF Channel, InTheirOrder, Passed, Ahead
<1>4. PICK u \in Seq(Nat) : u = Tail(t)
  BY <1>2, <1>3, HandedOn
<1> DEFINE r == [task[i] EXCEPT !.batch = u]
<1>5. /\ r \in Job /\ r.kind = "poll" /\ r.account = a /\ r.batch = u
      /\ r.cancelled = task[i].cancelled /\ r.at = "handling"
  <2>1. task[i] \in Job /\ task[i].kind = "poll" /\ task[i].at = "handling"
    BY <1>2, JobAt DEF LivePoll, Handling
  <2> QED
    BY <1>0, <2>1 DEF Job
<1>6. /\ task' = [task EXCEPT ![i] = r] /\ cursor' = cursor /\ polls' = polls
      /\ arrived' = arrived
  BY <1>1, <1>4 DEF Weixin!Handle, Weixin!files
<1>7. handled' = handled \/ handled' = [handled EXCEPT ![a] = Append(h, Head(t))]
  BY <1>0, <1>1 DEF Weixin!Handle
<1> HIDE DEF r
<1>8. PICK g \in Seq(Nat) :
        /\ g = h \/ g = Append(h, Head(t))
        /\ DOMAIN handled' = Accounts /\ handled'[a] = g
        /\ \A b \in Accounts \ {a} : handled'[b] = handled[b]
  <2>0. DOMAIN handled = Accounts /\ Append(h, Head(t)) \in Seq(Nat)
    BY <1>2, <1>3, HandedOn DEF Channel, Tables
  <2>1. CASE handled' = handled
    BY <1>1, <2>0, <2>1
  <2>2. CASE handled' = [handled EXCEPT ![a] = Append(h, Head(t))]
    BY <2>0, <2>2
  <2> QED
    BY <1>7, <2>1, <2>2
<1>9. /\ Rising(u) /\ UpTo(u, n) /\ Rising(g) /\ UpTo(g, n) /\ Precedes(g, u)
  <2>1. /\ Rising(u) /\ UpTo(u, n) /\ Precedes(h, u)
        /\ Rising(Append(h, Head(t))) /\ UpTo(Append(h, Head(t)), n)
        /\ Precedes(Append(h, Head(t)), u)
    BY <1>2, <1>3, <1>4, HandedOn
  <2> QED
    BY <1>3, <1>8, <2>1
<1>10. task \in Seq(Job)
  BY DEF Channel, Tables
<1>11. /\ task' \in Seq(Job) /\ DOMAIN task' = DOMAIN task
       /\ task'[i] = r /\ \A j \in DOMAIN task \ {i} : task'[j] = task[j]
  BY <1>5, <1>6, <1>10
<1>12. Tables'
  BY <1>6, <1>8, <1>11 DEF Channel, Tables
<1>13. ASSUME NEW j \in DOMAIN task
       PROVE  /\ LivePoll(j)' => LivePoll(j) /\ task'[j].account = task[j].account
              /\ Handling(j)' /\ j # i => Handling(j) /\ task'[j] = task[j]
                                            /\ task[j].account # a
  <2>1. CASE j = i
    BY <1>0, <1>2, <1>5, <1>11, <2>1
  <2>2. CASE j # i
    <3>1. task'[j] = task[j]
      BY <1>11, <2>2
    <3>2. (LivePoll(j)' <=> LivePoll(j)) /\ (Handling(j)' <=> Handling(j))
      BY <3>1 DEF LivePoll, Handling, Weixin!Live, Weixin!Done
    <3>3. Handling(j) => task[j].account # a
      BY <1>2, <2>2 DEF Handling, LivePoll, Channel, Tracked
    <3> QED
      BY <2>2, <3>1, <3>2, <3>3
  <2> QED
    BY <2>1, <2>2
<1>14. Tracked'
  BY <1>5, <1>6, <1>11, <1>13 DEF Channel, Tracked
<1>15. ASSUME NEW b \in Accounts PROVE Passed(b)'
  <2>1. CASE b = a
    BY <1>1, <1>6, <1>8, <1>9, <2>1 DEF Passed, Channel, Tables
  <2>2. CASE b # a
    BY <1>6, <1>8, <2>2 DEF Passed, Channel, Tables, InTheirOrder
  <2> QED
    BY <2>1, <2>2
<1>16. ASSUME NEW j \in DOMAIN task, Handling(j)' PROVE Ahead(j)'
  <2>1. CASE j = i
    <3>1. handled'[a] = g /\ cursor'[a] = n
      BY <1>1, <1>6, <1>8 DEF Channel, Tables
    <3> QED
      BY <1>5, <1>9, <1>11, <2>1, <3>1 DEF Ahead
  <2>2. CASE j # i
    <3>1. Ahead(j) /\ task'[j] = task[j] /\ task[j].account # a /\ task[j].account \in Accounts
      BY <1>13, <1>16, <2>2, JobAt DEF Channel, InTheirOrder
    <3>2. handled'[task[j].account] = handled[task[j].account]
      BY <1>8, <3>1
    <3> QED
      BY <1>6, <3>1, <3>2 DEF Ahead
  <2> QED
    BY <2>1, <2>2
<1> QED
  BY <1>11, <1>12, <1>14, <1>15, <1>16 DEF Channel, InTheirOrder

LEMMA ChannelStep ==
  ASSUME Channel, todo \subseteq Accounts, [Weixin!Next]_weixin
  PROVE  Channel'
<1>1. ASSUME NEW a \in Accounts,
             \/ Weixin!StopEnds(a) \/ Weixin!Arrive(a) \/ Weixin!Send(a)
      PROVE  Channel'
  <2>1. /\ task' = task /\ polls' = polls /\ cursor' = cursor /\ handled' = handled
        /\ DOMAIN arrived' = Accounts
    BY <1>1 DEF Weixin!StopEnds, Weixin!Arrive, Weixin!Send, Weixin!files, Channel, Tables
  <2>2. ASSUME NEW b \in Accounts PROVE arrived'[b] \in Nat /\ cursor[b] <= arrived'[b]
    <3>1. arrived[b] \in Nat /\ cursor[b] \in Nat /\ cursor[b] <= arrived[b]
      BY DEF Channel, Tables
    <3>2. arrived'[b] = arrived[b] \/ arrived'[b] = arrived[b] + 1
      BY <1>1 DEF Weixin!StopEnds, Weixin!Arrive, Weixin!Send, Channel, Tables
    <3> QED
      BY <3>1, <3>2
  <2>3. ASSUME NEW i \in DOMAIN task PROVE Quiet(i)
    BY <2>1 DEF Quiet, LivePoll, Handling, Weixin!Live, Weixin!Done
  <2> QED
    BY <2>1, <2>2, <2>3, QuietSteps DEF Channel, Tables
<1>2. CASE UNCHANGED weixin
  BY <1>2 DEF weixin, Channel, Tables, Tracked, InTheirOrder, Passed, Ahead, LivePoll,
              Handling, Weixin!Live, Weixin!Done
<1> QED
  BY <1>1, <1>2, StartSteps, StopSteps, LoginSteps, PauseSteps, AnswerSteps, HandleSteps,
     ManagerSteps DEF Weixin!Next

LEMMA ChannelHolds == Spec => [](Channel /\ todo \subseteq Accounts)
<1>1. Weixin!Init => Channel /\ todo \subseteq Accounts
  <2>1. <<>> \in Seq(Job) /\ <<>> \in Seq(Nat) /\ Len(<<>>) = 0 /\ DOMAIN <<>> = {}
    OBVIOUS
  <2> QED
    BY <2>1 DEF Weixin!Init, Channel, Tables, Tracked, InTheirOrder, Passed, Rising, UpTo
<1>2. Channel /\ todo \subseteq Accounts /\ [Weixin!Next]_weixin =>
        (Channel /\ todo \subseteq Accounts)'
  BY ChannelStep, TodoStep
<1> QED
  BY <1>1, <1>2, EachAlone, PTL

\* Every task that polls and has not been cancelled is the one the table has for
\* its account: a stop cancels what it takes out of the table, and a start takes
\* the place of a task that has ended only.
THEOREM PollsAreTrackedHolds == Spec => []PollsAreTracked
<1>1. Channel => PollsAreTracked
  BY DEF Channel, Tracked, LivePoll, PollsAreTracked, Weixin!PollsAreTracked
<1> QED
  BY <1>1, ChannelHolds, PTL

\* Messages are handed on at most once and in order, across stops, starts, failures
\* and crashes: the cursor is past what a poll holds before it hands it on.
THEOREM HandledOnceHolds == Spec => []HandledOnce
<1>1. Channel => HandledOnce
  <2>1. ASSUME Channel, NEW a \in Accounts, NEW k \in 1 .. Len(handled[a]) - 1
        PROVE  handled[a][k] < handled[a][k + 1]
    <3>1. handled[a] \in Seq(Nat) /\ Rising(handled[a])
      BY <2>1 DEF Channel, Tables, InTheirOrder, Passed
    <3>2. k \in 1 .. Len(handled[a]) /\ k + 1 \in 1 .. Len(handled[a]) /\ k < k + 1
      BY <3>1
    <3> QED
      BY <3>1, <3>2 DEF Rising
  <2> QED
    BY <2>1 DEF HandledOnce, Weixin!HandledOnce
<1> QED
  BY <1>1, ChannelHolds, PTL
-----------------------------------------------------------------------------
(***************************************************************************)
(* Types of the Weixin channel.                                            *)
(***************************************************************************)
Messages == 1 .. MaxMessages
ChannelJobs == [kind : {"poll", "login"}, account : Accounts,
                at : {"asking", "handling", "pause", "over", "failed"},
                cancelled : BOOLEAN, batch : Seq(Messages)]
Tellings == [configured : BOOLEAN, running : BOOLEAN, error : BOOLEAN,
             login : {"", "waiting", "expired", "confirmed"}]
Numbers(t) == 1 .. Len(t) \cup {None}

\* The types of the channel, by what a step changes together.
BooksTyped ==
  /\ saved \subseteq Accounts /\ context \subseteq Accounts
  /\ cursor \in [Accounts -> 0 .. MaxMessages] /\ arrived \in [Accounts -> 0 .. MaxMessages]
  /\ handled \in [Accounts -> Seq(Messages)]
JobsTypedIn(t) == t \in Seq(ChannelJobs) /\ Len(t) <= MaxTasks
PointsInto(f, t) == f \in [Accounts -> Numbers(t)]
TablesTyped(t) == PointsInto(polls, t) /\ PointsInto(logins, t) /\ PointsInto(stopper, t)
ToldTyped == summary \in [Accounts -> Tellings \cup {None}]
ManagerTyped ==
  /\ todo \subseteq Accounts /\ manager \in {"off", "starting", "on", "stopping"}
  /\ channelCrashes \in 0 .. MaxCrashes
ChannelTypes ==
  BooksTyped /\ JobsTypedIn(task) /\ TablesTyped(task) /\ ToldTyped /\ ManagerTyped

LEMMA ChannelTyped == ChannelTypes => Weixin!TypeOK
<1>1. ASSUME ChannelTypes PROVE Weixin!TypeOK
  <2>1. DOMAIN task = 1 .. Len(task) /\ \A i \in DOMAIN task : task[i] \in ChannelJobs
    BY <1>1 DEF ChannelTypes, JobsTypedIn
  <2>2. {polls, logins, stopper} \subseteq [Accounts -> DOMAIN task \cup {None}]
    BY <1>1, <2>1 DEF ChannelTypes, TablesTyped, PointsInto, Numbers
  <2>3. \A i \in DOMAIN task :
          /\ task[i].kind \in {"poll", "login"} /\ task[i].account \in Accounts
          /\ task[i].at \in {"asking", "handling", "pause", "over", "failed"}
          /\ task[i].cancelled \in BOOLEAN /\ task[i].batch \in Seq(1 .. MaxMessages)
    BY <2>1 DEF ChannelJobs, Messages
  <2>4. \A a \in Accounts : summary[a] # None =>
          /\ {summary[a].configured, summary[a].running, summary[a].error} \subseteq BOOLEAN
          /\ summary[a].login \in {"", "waiting", "expired", "confirmed"}
    BY <1>1 DEF ChannelTypes, ToldTyped, Tellings
  <2>5. BooksTyped /\ ManagerTyped /\ Len(task) <= MaxTasks
    BY <1>1 DEF ChannelTypes, JobsTypedIn
  <2> QED
    BY <2>2, <2>3, <2>4, <2>5 DEF BooksTyped, ManagerTyped, Messages, Weixin!TypeOK
<1> QED
  BY <1>1

LEMMA TellingIs ==
  ASSUME ToldTyped, NEW a \in Accounts
  PROVE  /\ Weixin!Summary(a) \in Tellings
         /\ \A b, c \in BOOLEAN, l \in {"", "waiting", "expired", "confirmed"} :
              /\ [Weixin!Summary(a) EXCEPT !.running = b, !.error = c] \in Tellings
              /\ [Weixin!Summary(a) EXCEPT !.running = b] \in Tellings
              /\ [Weixin!Summary(a) EXCEPT !.error = b] \in Tellings
              /\ [Weixin!Summary(a) EXCEPT !.login = l] \in Tellings
              /\ [Weixin!Summary(a) EXCEPT !.configured = b, !.login = l] \in Tellings
<1>1. Weixin!Summary(a) \in Tellings
  <2>1. ASSUME NEW b \in BOOLEAN
        PROVE  [configured |-> b, running |-> FALSE, error |-> FALSE, login |-> ""] \in Tellings
    BY DEF Tellings
  <2>2. (a \in saved) \in BOOLEAN
    OBVIOUS
  <2>3. [configured |-> a \in saved, running |-> FALSE, error |-> FALSE, login |-> ""]
          \in Tellings
    BY <2>1, <2>2, Zenon
  <2>4. summary[a] # None => summary[a] \in Tellings
    BY DEF ToldTyped
  <2> QED
    BY <2>3, <2>4, Zenon DEF Weixin!Summary
<1>2. ASSUME NEW s \in Tellings, NEW b \in BOOLEAN, NEW c \in BOOLEAN,
             NEW l \in {"", "waiting", "expired", "confirmed"}
      PROVE  /\ [s EXCEPT !.running = b, !.error = c] \in Tellings
             /\ [s EXCEPT !.running = b] \in Tellings
             /\ [s EXCEPT !.error = b] \in Tellings
             /\ [s EXCEPT !.login = l] \in Tellings
             /\ [s EXCEPT !.configured = b, !.login = l] \in Tellings
  BY DEF Tellings
<1> QED
  BY <1>1, <1>2

LEMMA TellingSet ==
  ASSUME ToldTyped, NEW a \in Accounts, NEW s \in Tellings, Weixin!SetSummary(a, s)
  PROVE  ToldTyped'
BY DEF ToldTyped, Weixin!SetSummary

LEMMA JobSet ==
  ASSUME JobsTypedIn(task), NEW i \in DOMAIN task, NEW r \in ChannelJobs,
         task' = [task EXCEPT ![i] = r]
  PROVE  JobsTypedIn(task') /\ Len(task') = Len(task)
BY DEF JobsTypedIn

LEMMA JobGoes ==
  ASSUME JobsTypedIn(task), NEW i \in DOMAIN task
  PROVE  /\ task[i] \in ChannelJobs /\ Weixin!Over(i) \in ChannelJobs
         /\ \A at \in {"asking", "handling", "pause", "over", "failed"}, q \in Seq(Messages) :
              /\ [task[i] EXCEPT !.at = at] \in ChannelJobs
              /\ [task[i] EXCEPT !.batch = q] \in ChannelJobs
              /\ [task[i] EXCEPT !.at = at, !.batch = q] \in ChannelJobs
         /\ \A b \in BOOLEAN : [task[i] EXCEPT !.cancelled = b] \in ChannelJobs
<1>1. task[i] \in ChannelJobs /\ <<>> \in Seq(Messages)
  BY DEF JobsTypedIn
<1>2. ASSUME NEW r \in ChannelJobs, NEW b \in BOOLEAN, NEW q \in Seq(Messages),
             NEW at \in {"asking", "handling", "pause", "over", "failed"}
      PROVE  /\ [r EXCEPT !.at = at] \in ChannelJobs
             /\ [r EXCEPT !.batch = q] \in ChannelJobs
             /\ [r EXCEPT !.at = at, !.batch = q] \in ChannelJobs
             /\ [r EXCEPT !.cancelled = b] \in ChannelJobs
             /\ [r EXCEPT !.at = "over", !.cancelled = FALSE, !.batch = q] \in ChannelJobs
  BY DEF ChannelJobs
<1> QED
  BY <1>1, <1>2 DEF Weixin!Over

LEMMA JobsMapped ==
  ASSUME JobsTypedIn(task), DOMAIN task' = DOMAIN task, task' = [i \in DOMAIN task |-> task'[i]],
         \A i \in DOMAIN task : task'[i] \in ChannelJobs
  PROVE  JobsTypedIn(task') /\ Len(task') = Len(task)
<1>1. DOMAIN task = 1 .. Len(task) /\ Len(task) \in Nat
  BY DEF JobsTypedIn
<1>2. task' \in [1 .. Len(task) -> ChannelJobs]
  BY <1>1
<1>3. task' \in Seq(ChannelJobs) /\ Len(task') = Len(task)
  BY <1>1, <1>2
<1> QED
  BY <1>3 DEF JobsTypedIn

LEMMA JobMade ==
  ASSUME JobsTypedIn(task), NEW kind \in {"poll", "login"}, NEW a \in Accounts,
         Weixin!Make(kind, a)
  PROVE  JobsTypedIn(task') /\ Len(task') = Len(task) + 1 /\ Len(task) \in Nat
<1>1. PICK r : /\ r = [kind |-> kind, account |-> a, at |-> "asking", cancelled |-> FALSE,
                       batch |-> <<>>]
               /\ task' = Append(task, r)
  BY DEF Weixin!Make
<1>2. <<>> \in Seq(Messages)
  OBVIOUS
<1>3. r \in ChannelJobs
  BY <1>1, <1>2 DEF ChannelJobs
<1>4. MaxTasks \in Nat /\ Len(task) < MaxTasks /\ Len(task) \in Nat
  BY ComponentConstants DEF Weixin!WeixinConstants, Weixin!Make, JobsTypedIn
<1>5. Len(task') = Len(task) + 1 /\ task' \in Seq(ChannelJobs)
  BY <1>1, <1>3 DEF JobsTypedIn
<1> QED
  BY <1>4, <1>5 DEF JobsTypedIn

\* A table goes on referring to the tasks there are, when one is made or none.
LEMMA PointsStill ==
  ASSUME NEW f, PointsInto(f, task), Len(task) \in Nat, Len(task') \in Nat, Len(task) <= Len(task'),
         NEW a \in Accounts
  PROVE  /\ PointsInto(f, task') /\ PointsInto([f EXCEPT ![a] = None], task')
         /\ \A i \in 1 .. Len(task') : PointsInto([f EXCEPT ![a] = i], task')
<1>1. Numbers(task) \subseteq Numbers(task')
  BY DEF Numbers
<1>2. f \in [Accounts -> Numbers(task')]
  BY <1>1 DEF PointsInto
<1> QED
  BY <1>2 DEF PointsInto, Numbers

LEMMA StartTyped ==
  ASSUME ChannelTypes, NEW a \in Accounts, Weixin!StartAccount(a)
  PROVE  BooksTyped' /\ JobsTypedIn(task') /\ TablesTyped(task)' /\ ToldTyped'
<1>0. UNCHANGED <<saved, cursor, arrived, handled, logins, context, stopper>>
  BY DEF Weixin!StartAccount, Weixin!files
<1>1. BooksTyped'
  BY <1>0 DEF ChannelTypes, BooksTyped
<1>2. CASE UNCHANGED <<task, polls, summary>>
  BY <1>0, <1>1, <1>2 DEF ChannelTypes, TablesTyped, ToldTyped
<1>3. CASE /\ Weixin!Make("poll", a) /\ polls' = [polls EXCEPT ![a] = Len(task) + 1]
           /\ Weixin!SetSummary(a, [Weixin!Summary(a) EXCEPT !.running = TRUE, !.error = FALSE])
  <2>1. JobsTypedIn(task') /\ Len(task') = Len(task) + 1 /\ Len(task) \in Nat
    BY <1>3, JobMade DEF ChannelTypes
  <2>2. TablesTyped(task)'
    <3>1. Len(task') \in Nat /\ Len(task) <= Len(task') /\ Len(task) + 1 \in 1 .. Len(task')
      BY <2>1
    <3>2. PointsInto(polls, task) /\ PointsInto(logins, task) /\ PointsInto(stopper, task)
      BY DEF ChannelTypes, TablesTyped
    <3> QED
      BY <1>0, <1>3, <2>1, <3>1, <3>2, PointsStill DEF TablesTyped
  <2>3. ToldTyped'
    BY <1>3, TellingIs, TellingSet DEF ChannelTypes
  <2> QED
    BY <1>1, <2>1, <2>2, <2>3
<1> QED
  BY <1>2, <1>3 DEF Weixin!StartAccount

LEMMA StopTyped ==
  ASSUME ChannelTypes, NEW a \in Accounts, Weixin!StopAccount(a)
  PROVE  BooksTyped' /\ JobsTypedIn(task') /\ TablesTyped(task)' /\ ToldTyped'
<1>0. UNCHANGED <<saved, cursor, arrived, handled, logins, context>>
      /\ polls' = [polls EXCEPT ![a] = None]
  BY DEF Weixin!StopAccount, Weixin!files
<1>1. BooksTyped'
  BY <1>0 DEF ChannelTypes, BooksTyped
<1>2. /\ PointsInto(polls, task) /\ PointsInto(logins, task) /\ PointsInto(stopper, task)
      /\ Len(task) \in Nat /\ DOMAIN task = 1 .. Len(task)
  BY DEF ChannelTypes, TablesTyped, JobsTypedIn
<1>3. CASE polls[a] = None /\ Weixin!Ended(a) /\ UNCHANGED <<task, stopper>>
  <2>1. ToldTyped'
    BY <1>3, TellingIs, TellingSet DEF ChannelTypes, Weixin!Ended
  <2>2. TablesTyped(task)'
    <3>1. task' = task /\ stopper' = stopper /\ Len(task) <= Len(task')
      BY <1>2, <1>3
    <3> QED
      BY <1>0, <1>2, <3>1, PointsStill DEF TablesTyped
  <2> QED
    BY <1>1, <1>3, <2>1, <2>2 DEF ChannelTypes
<1>4. CASE /\ polls[a] # None /\ stopper' = [stopper EXCEPT ![a] = polls[a]]
           /\ task' = [task EXCEPT ![polls[a]].cancelled = ~Weixin!Done(polls[a])]
           /\ UNCHANGED summary
  <2>1. PICK i : i = polls[a]
    OBVIOUS
  <2>2. i \in DOMAIN task
    BY <1>2, <1>4, <2>1 DEF PointsInto, Numbers
  <2>3. PICK r : r = [task[i] EXCEPT !.cancelled = ~Weixin!Done(i)]
    OBVIOUS
  <2>4. r \in ChannelJobs
    BY <2>2, <2>3, JobGoes DEF ChannelTypes
  <2>5. JobsTypedIn(task') /\ Len(task') = Len(task)
    <3>1. task' = [task EXCEPT ![i] = r]
      BY <1>4, <2>1, <2>3
    <3> QED
      BY <2>2, <2>4, <3>1, JobSet DEF ChannelTypes
  <2>6. i \in 1 .. Len(task') /\ Len(task') \in Nat /\ Len(task) <= Len(task')
    BY <1>2, <2>2, <2>5
  <2>7. TablesTyped(task)'
    BY <1>0, <1>2, <1>4, <2>1, <2>6, PointsStill DEF TablesTyped
  <2> QED
    BY <1>1, <1>4, <2>5, <2>7 DEF ChannelTypes, ToldTyped
<1> QED
  BY <1>3, <1>4 DEF Weixin!StopAccount

\* A step that keeps the number of tasks, changes one of them or none, and takes at
\* most an entry out of a table.
LEMMA TablesRest ==
  ASSUME ChannelTypes, Len(task') = Len(task), polls' = polls, stopper' = stopper,
         logins' = logins \/ \E a \in Accounts : logins' = [logins EXCEPT ![a] = None]
  PROVE  TablesTyped(task)'
<1>1. /\ PointsInto(polls, task) /\ PointsInto(logins, task) /\ PointsInto(stopper, task)
      /\ Numbers(task') = Numbers(task)
  BY DEF ChannelTypes, TablesTyped, Numbers
<1>2. PointsInto(logins, task)'
  BY <1>1 DEF PointsInto, Numbers
<1>3. PointsInto(polls, task)' /\ PointsInto(stopper, task)'
  BY <1>1 DEF PointsInto
<1> QED
  BY <1>2, <1>3 DEF TablesTyped

LEMMA ArrivalTyped ==
  ASSUME ChannelTypes, NEW a \in Accounts,
         Weixin!StopEnds(a) \/ Weixin!Arrive(a) \/ Weixin!Send(a)
  PROVE  ChannelTypes'
<1>1. CASE Weixin!StopEnds(a)
  <2>1. /\ UNCHANGED <<saved, cursor, arrived, handled, task, polls, logins, context, channelCrashes>>
        /\ stopper' = [stopper EXCEPT ![a] = None]
    BY <1>1 DEF Weixin!StopEnds, Weixin!files
  <2>2. ToldTyped'
    <3>1. Weixin!Ended(a) \/ summary' = summary
      BY <1>1 DEF Weixin!StopEnds
    <3> QED
      BY <3>1, TellingIs, TellingSet DEF ChannelTypes, Weixin!Ended, ToldTyped
  <2>3. ManagerTyped'
    <3>1. todo' \subseteq todo /\ manager' \in {manager, "on"}
      BY <1>1 DEF Weixin!StopEnds
    <3> QED
      BY <2>1, <3>1 DEF ChannelTypes, ManagerTyped
  <2>4. TablesTyped(task)'
    BY <2>1 DEF ChannelTypes, TablesTyped, PointsInto, Numbers
  <2> QED
    BY <2>1, <2>2, <2>3, <2>4 DEF ChannelTypes, BooksTyped
<1>2. CASE Weixin!Arrive(a)
  <2>1. arrived' \in [Accounts -> 0 .. MaxMessages]
    <3>1. MaxMessages \in Nat
      BY ComponentConstants DEF Weixin!WeixinConstants
    <3>2. arrived[a] \in 0 .. MaxMessages /\ arrived[a] < MaxMessages
      BY <1>2 DEF ChannelTypes, BooksTyped, Weixin!Arrive
    <3>3. arrived[a] + 1 \in 0 .. MaxMessages
      BY <3>1, <3>2
    <3> QED
      BY <1>2, <3>3 DEF ChannelTypes, BooksTyped, Weixin!Arrive
  <2> QED
    BY <1>2, <2>1 DEF ChannelTypes, BooksTyped, TablesTyped, ToldTyped, ManagerTyped,
                      Weixin!Arrive, Weixin!files, Weixin!control
<1>3. CASE Weixin!Send(a)
  <2>1. ToldTyped'
    BY <1>3, TellingIs, TellingSet DEF ChannelTypes, Weixin!Send
  <2> QED
    BY <1>3, <2>1 DEF ChannelTypes, BooksTyped, TablesTyped, ManagerTyped,
                      Weixin!Send, Weixin!files, Weixin!control
<1> QED
  BY <1>1, <1>2, <1>3

LEMMA LoginTyped ==
  ASSUME ChannelTypes, NEW a \in Accounts, Weixin!Login(a)
  PROVE  ChannelTypes'
<1>1. JobsTypedIn(task') /\ Len(task') = Len(task) + 1 /\ Len(task) \in Nat
  BY JobMade DEF ChannelTypes, Weixin!Login
<1>2. Len(task') \in Nat /\ Len(task) <= Len(task') /\ Len(task) + 1 \in 1 .. Len(task')
  BY <1>1
<1>3. /\ logins' = [logins EXCEPT ![a] = Len(task) + 1]
      /\ UNCHANGED <<saved, cursor, arrived, handled, polls, context, stopper, manager, todo,
                     channelCrashes>>
  BY DEF Weixin!Login, Weixin!files, Weixin!control
<1>4. TablesTyped(task)'
  <2>1. PointsInto(polls, task) /\ PointsInto(logins, task) /\ PointsInto(stopper, task)
    BY DEF ChannelTypes, TablesTyped
  <2> QED
    BY <1>1, <1>2, <1>3, <2>1, PointsStill DEF TablesTyped
<1>5. ToldTyped'
  BY TellingIs, TellingSet DEF ChannelTypes, Weixin!Login
<1> QED
  BY <1>1, <1>3, <1>4, <1>5 DEF ChannelTypes, BooksTyped, ManagerTyped

LEMMA ManagerSetTyped ==
  ASSUME ChannelTypes,
         Weixin!ManagerStart \/ Weixin!ManagerStarts \/ Weixin!ManagerStop \/ Weixin!ManagerStops
           \/ Weixin!Crash
  PROVE  ChannelTypes'
<1>0. /\ BooksTyped /\ JobsTypedIn(task) /\ TablesTyped(task) /\ ToldTyped
      /\ todo \subseteq Accounts /\ manager \in {"off", "starting", "on", "stopping"}
      /\ channelCrashes \in 0 .. MaxCrashes
      /\ DOMAIN task = 1 .. Len(task) /\ Len(task) \in Nat
  BY DEF ChannelTypes, ManagerTyped, JobsTypedIn
<1>1. CASE Weixin!ManagerStart \/ Weixin!ManagerStop
  <2>1. /\ UNCHANGED <<saved, cursor, arrived, handled, task, polls, logins, context, summary, stopper,
                       channelCrashes>>
        /\ todo' \subseteq Accounts /\ manager' \in {"starting", "stopping"}
    BY <1>1 DEF Weixin!ManagerStart, Weixin!ManagerStop, Weixin!files
  <2> QED
    BY <1>0, <2>1 DEF ChannelTypes, BooksTyped, TablesTyped, PointsInto, ToldTyped, ManagerTyped
<1>2. CASE Weixin!ManagerStarts
  <2>1. ManagerTyped'
    <3>1. todo' \subseteq Accounts /\ manager' \in {manager, "on", "off"}
          /\ channelCrashes' = channelCrashes
      BY <1>0, <1>2 DEF Weixin!ManagerStarts
    <3> QED
      BY <1>0, <3>1 DEF ManagerTyped
  <2>2. CASE \E a \in todo : Weixin!StartAccount(a)
    BY <1>0, <2>1, <2>2, StartTyped DEF ChannelTypes
  <2>3. CASE UNCHANGED <<saved, cursor, arrived, handled, task, polls, logins, context, summary, stopper>>
    BY <1>0, <2>1, <2>3 DEF ChannelTypes, BooksTyped, TablesTyped, PointsInto, ToldTyped
  <2> QED
    BY <1>2, <2>2, <2>3 DEF Weixin!ManagerStarts, Weixin!files
<1>3. CASE Weixin!ManagerStops
  <2>1. ManagerTyped'
    <3>1. todo' \subseteq Accounts /\ manager' \in {manager, "on", "off"}
          /\ channelCrashes' = channelCrashes
      BY <1>0, <1>3 DEF Weixin!ManagerStops
    <3> QED
      BY <1>0, <3>1 DEF ManagerTyped
  <2>2. CASE \E a \in todo : Weixin!StopAccount(a)
    BY <1>0, <2>1, <2>2, StopTyped DEF ChannelTypes
  <2>3. CASE /\ task' = [i \in DOMAIN task |->
                  IF \E a \in Accounts : logins[a] = i
                  THEN [task[i] EXCEPT !.cancelled = TRUE] ELSE task[i]]
             /\ logins' = [a \in Accounts |-> None]
             /\ UNCHANGED <<saved, cursor, arrived, handled, polls, context, summary, stopper>>
    <3>1. ASSUME NEW i \in DOMAIN task PROVE task'[i] \in ChannelJobs
      BY <1>0, <2>3, <3>1, JobGoes
    <3>2. JobsTypedIn(task') /\ Len(task') = Len(task)
      BY <1>0, <2>3, <3>1, JobsMapped
    <3>3. TablesTyped(task)'
      BY <1>0, <2>3, <3>2 DEF TablesTyped, PointsInto, Numbers
    <3> QED
      BY <1>0, <2>1, <2>3, <3>2, <3>3 DEF ChannelTypes, BooksTyped, ToldTyped
  <2> QED
    BY <1>3, <2>2, <2>3 DEF Weixin!ManagerStops, Weixin!files
<1>4. CASE Weixin!Crash
  <2>1. /\ task' = [i \in DOMAIN task |-> Weixin!Over(i)]
        /\ polls' = [a \in Accounts |-> None] /\ logins' = polls' /\ stopper' = polls'
        /\ summary' = polls' /\ context' = {} /\ manager' = "off" /\ todo' = {}
        /\ UNCHANGED <<saved, cursor, arrived, handled>>
        /\ channelCrashes < MaxCrashes /\ channelCrashes' = channelCrashes + 1
    BY <1>4 DEF Weixin!Crash, Weixin!files
  <2>2. ASSUME NEW i \in DOMAIN task PROVE task'[i] \in ChannelJobs
    BY <1>0, <2>1, <2>2, JobGoes
  <2>3. JobsTypedIn(task') /\ Len(task') = Len(task)
    BY <1>0, <2>1, <2>2, JobsMapped
  <2>4. TablesTyped(task)' /\ ToldTyped'
    BY <2>1 DEF TablesTyped, PointsInto, Numbers, ToldTyped
  <2>5. MaxCrashes \in Nat
    BY ComponentConstants DEF Weixin!WeixinConstants
  <2>6. channelCrashes' \in 0 .. MaxCrashes
    BY <1>0, <2>1, <2>5
  <2> QED
    BY <1>0, <2>1, <2>3, <2>4, <2>6 DEF ChannelTypes, BooksTyped, ManagerTyped
<1> QED
  BY <1>1, <1>2, <1>3, <1>4

LEMMA TaskTyped ==
  ASSUME Channel, ChannelTypes, NEW i \in DOMAIN task,
         \/ Weixin!PollAnswers(i) \/ Weixin!Handle(i) \/ Weixin!PollPauses(i)
         \/ Weixin!PollFails(i) \/ Weixin!Dies(i)
         \/ \E b \in Accounts, ends \in {"confirmed", "expired", "error"} :
              Weixin!WatchEnds(i, b, ends)
  PROVE  ChannelTypes'
<1>0. /\ BooksTyped /\ JobsTypedIn(task) /\ TablesTyped(task) /\ ToldTyped /\ ManagerTyped
      /\ task[i] \in ChannelJobs
  BY JobGoes DEF ChannelTypes
<1>a. task[i].account \in Accounts /\ task[i].batch \in Seq(Messages)
  BY <1>0 DEF ChannelJobs
<1>b. <<>> \in Seq(Messages)
  OBVIOUS
<1>1. CASE Weixin!PollAnswers(i)
  <2>1. PICK a \in Accounts : a = task[i].account
    BY <1>a
  <2>2. PICK q : q = [k \in 1 .. arrived[a] - cursor[a] |-> cursor[a] + k]
    OBVIOUS
  <2>3. /\ cursor[a] \in Nat /\ arrived[a] \in 0 .. MaxMessages /\ cursor[a] <= arrived[a]
        /\ MaxMessages \in Nat
    BY <1>0, ComponentConstants DEF Channel, Tables, BooksTyped, Weixin!WeixinConstants
  <2>4. q \in Seq(Messages)
    <3>1. PICK n \in Nat : n = arrived[a] - cursor[a]
      BY <2>3
    <3>2. ASSUME NEW k \in 1 .. n PROVE cursor[a] + k \in Messages
      BY <2>3, <3>1, <3>2 DEF Messages
    <3>3. q \in [1 .. n -> Messages]
      BY <2>2, <3>1, <3>2
    <3> QED
      BY <3>3
  <2>5. PICK r : r = [task[i] EXCEPT !.at = "handling", !.batch = q]
    OBVIOUS
  <2>6. r \in ChannelJobs
    BY <1>0, <2>4, <2>5, JobGoes
  <2>7. task' = [task EXCEPT ![i] = r]
    BY <1>1, <2>1, <2>2, <2>5 DEF Weixin!PollAnswers
  <2>8. JobsTypedIn(task') /\ Len(task') = Len(task)
    BY <1>0, <2>6, <2>7, JobSet
  <2>9. /\ cursor' = [cursor EXCEPT ![a] = arrived[a]]
        /\ UNCHANGED <<saved, arrived, handled, polls, logins, context, summary, stopper, manager,
                       todo, channelCrashes>>
    BY <1>1, <2>1 DEF Weixin!PollAnswers, Weixin!NextCursor, Weixin!control
  <2>10. cursor' \in [Accounts -> 0 .. MaxMessages]
    BY <1>0, <2>3, <2>9 DEF BooksTyped
  <2> QED
    BY <1>0, <2>8, <2>9, <2>10, TablesRest
       DEF ChannelTypes, BooksTyped, ToldTyped, ManagerTyped
<1>2. CASE Weixin!Handle(i)
  <2>1. PICK a \in Accounts : a = task[i].account
    BY <1>a
  <2>2. PICK q : q = task[i].batch
    OBVIOUS
  <2>3. q \in Seq(Messages) /\ q # <<>>
    BY <1>2, <1>a, <2>2 DEF Weixin!Handle
  <2>4. Head(q) \in Messages /\ Tail(q) \in Seq(Messages)
    BY <2>3, SeqOver
  <2>5. PICK r : r = [task[i] EXCEPT !.batch = Tail(q)]
    OBVIOUS
  <2>6. r \in ChannelJobs
    BY <1>0, <2>4, <2>5, JobGoes, <1>a
  <2>7. task' = [task EXCEPT ![i] = r]
    BY <1>2, <2>2, <2>5 DEF Weixin!Handle
  <2>8. JobsTypedIn(task') /\ Len(task') = Len(task)
    BY <1>0, <2>6, <2>7, JobSet
  <2>9. /\ UNCHANGED <<saved, cursor, arrived, polls, logins, stopper, manager, todo, channelCrashes>>
        /\ \/ UNCHANGED <<handled, context, summary>>
           \/ /\ handled' = [handled EXCEPT ![a] = Append(handled[a], Head(q))]
              /\ (context' = context \cup {a} \/ UNCHANGED context)
              /\ Weixin!SetSummary(a, [Weixin!Summary(a) EXCEPT !.running = TRUE, !.error = FALSE])
    BY <1>0, <1>2, <2>1, <2>2 DEF Weixin!Handle, Weixin!files, Weixin!control, BooksTyped
  <2>10. ToldTyped'
    BY <1>0, <2>9, TellingIs, TellingSet DEF ToldTyped
  <2>11. BooksTyped'
    <3>1. handled[a] \in Seq(Messages)
      BY <1>0 DEF BooksTyped
    <3>2. Append(handled[a], Head(q)) \in Seq(Messages)
      BY <2>4, <3>1, SeqOver
    <3> QED
      BY <1>0, <2>9, <3>2 DEF BooksTyped
  <2> QED
    BY <1>0, <2>8, <2>9, <2>10, <2>11, TablesRest DEF ChannelTypes, ManagerTyped
<1>3. CASE Weixin!PollPauses(i)
  <2>1. PICK at \in {"pause", "asking"} : task' = [task EXCEPT ![i].at = at]
    BY <1>3 DEF Weixin!PollPauses
  <2>2. PICK r : r = [task[i] EXCEPT !.at = at]
    OBVIOUS
  <2>3. r \in ChannelJobs /\ task' = [task EXCEPT ![i] = r]
    BY <1>0, <1>b, <2>1, <2>2, JobGoes
  <2>4. JobsTypedIn(task') /\ Len(task') = Len(task)
    BY <1>0, <2>3, JobSet
  <2> QED
    BY <1>0, <1>3, <2>4, TablesRest
       DEF ChannelTypes, BooksTyped, ToldTyped, ManagerTyped, Weixin!PollPauses, Weixin!files,
           Weixin!control
<1>4. CASE Weixin!PollFails(i)
  <2>1. PICK at \in {"pause", "failed"} : task' = [task EXCEPT ![i].at = at, ![i].batch = <<>>]
    BY <1>4 DEF Weixin!PollFails
  <2>2. PICK r : r = [task[i] EXCEPT !.at = at, !.batch = <<>>]
    OBVIOUS
  <2>3. r \in ChannelJobs
    BY <1>0, <1>b, <2>1, <2>2, JobGoes
  <2>4. task' = [task EXCEPT ![i] = r]
    BY <2>1, <2>2
  <2>5. JobsTypedIn(task') /\ Len(task') = Len(task)
    BY <1>0, <2>3, <2>4, JobSet
  <2>6. ToldTyped'
    BY <1>0, <1>4, <1>a, TellingIs, TellingSet DEF Weixin!PollFails
  <2> QED
    BY <1>0, <1>4, <2>5, <2>6, TablesRest
       DEF ChannelTypes, BooksTyped, ManagerTyped, Weixin!PollFails, Weixin!files, Weixin!control
<1>5. CASE Weixin!Dies(i)
  <2>1. /\ task' = [task EXCEPT ![i] = Weixin!Over(i)]
        /\ UNCHANGED <<saved, cursor, arrived, handled, polls, context, summary, stopper, manager, todo,
                       channelCrashes>>
        /\ logins' = logins \/ logins' = [logins EXCEPT ![task[i].account] = None]
    BY <1>5 DEF Weixin!Dies, Weixin!files, Weixin!control
  <2>2. JobsTypedIn(task') /\ Len(task') = Len(task)
    BY <1>0, <2>1, JobGoes, JobSet
  <2> QED
    BY <1>0, <1>a, <2>1, <2>2, TablesRest DEF ChannelTypes, BooksTyped, ToldTyped, ManagerTyped
<1>6. ASSUME NEW b \in Accounts, NEW ends \in {"confirmed", "expired", "error"},
             Weixin!WatchEnds(i, b, ends)
      PROVE  ChannelTypes'
  <2>1. /\ task' = [task EXCEPT ![i] = Weixin!Over(i)]
        /\ logins' = [logins EXCEPT ![task[i].account] = None]
        /\ UNCHANGED <<cursor, arrived, handled, polls, context, stopper, manager, todo,
                       channelCrashes>>
        /\ saved' = saved \/ saved' = saved \cup {b}
    BY <1>6 DEF Weixin!WatchEnds, Weixin!control
  <2>2. JobsTypedIn(task') /\ Len(task') = Len(task)
    BY <1>0, <2>1, JobGoes, JobSet
  <2>3. PICK a \in Accounts, s \in Tellings : Weixin!SetSummary(a, s)
    BY <1>0, <1>6, <1>a, TellingIs DEF Weixin!WatchEnds
  <2>4. ToldTyped'
    BY <1>0, <2>3, TellingSet
  <2> QED
    BY <1>0, <1>a, <2>1, <2>2, <2>4, TablesRest DEF ChannelTypes, BooksTyped, ManagerTyped
<1> QED
  BY <1>1, <1>2, <1>3, <1>4, <1>5, <1>6

LEMMA ChannelTypesStep ==
  ASSUME Channel, ChannelTypes, [Weixin!Next]_weixin
  PROVE  ChannelTypes'
<1>1. ASSUME NEW a \in Accounts,
             Weixin!StartAccount(a) \/ Weixin!StopAccount(a), UNCHANGED Weixin!control
      PROVE  ChannelTypes'
  <2>1. ManagerTyped'
    BY <1>1 DEF ChannelTypes, ManagerTyped, Weixin!control
  <2> QED
    BY <1>1, <2>1, StartTyped, StopTyped DEF ChannelTypes
<1>2. CASE UNCHANGED weixin
  BY <1>2 DEF weixin, ChannelTypes, BooksTyped, TablesTyped, PointsInto, ToldTyped, ManagerTyped
<1> QED
  BY <1>1, <1>2, ArrivalTyped, LoginTyped, ManagerSetTyped, TaskTyped DEF Weixin!Next

LEMMA ChannelTypesHold == Spec => []Weixin!TypeOK
<1>1. Weixin!Init => ChannelTypes
  <2>1. ASSUME Weixin!Init PROVE ChannelTypes
    <3>1. <<>> \in Seq(ChannelJobs) /\ <<>> \in Seq(Messages) /\ Len(<<>>) = 0
      OBVIOUS
    <3>2. MaxMessages \in Nat /\ MaxTasks \in Nat /\ MaxCrashes \in Nat
      BY ComponentConstants DEF Weixin!WeixinConstants
    <3>3. /\ task = <<>> /\ polls = [a \in Accounts |-> None] /\ logins = polls /\ stopper = polls
          /\ summary = polls
      BY <2>1 DEF Weixin!Init
    <3>4. JobsTypedIn(task)
      BY <3>1, <3>2, <3>3 DEF JobsTypedIn
    <3>5. TablesTyped(task) /\ ToldTyped
      BY <3>3 DEF TablesTyped, PointsInto, Numbers, ToldTyped
    <3>6. 0 \in 0 .. MaxMessages /\ 0 \in 0 .. MaxCrashes
      BY <3>2
    <3>7. BooksTyped /\ ManagerTyped
      BY <2>1, <3>1, <3>6 DEF Weixin!Init, BooksTyped, ManagerTyped
    <3> QED
      BY <3>4, <3>5, <3>7 DEF ChannelTypes
  <2> QED
    BY <2>1
<1>2. Channel /\ ChannelTypes /\ [Weixin!Next]_weixin => ChannelTypes'
  BY ChannelTypesStep
<1>3. Spec => []Channel
  BY ChannelHolds, PTL
<1> QED
  BY <1>1, <1>2, <1>3, ChannelTyped, EachAlone, PTL
-----------------------------------------------------------------------------
(***************************************************************************)
(* The workspace sessions.                                                 *)
(***************************************************************************)

Asked == {"op", "host", "at", "mine", "ok", "rounds"}
Fit(t) ==
  DOMAIN request[t] = Asked /\ (request[t].at # "idle" => request[t].host \in Remotes)
\* What the proofs need to know of the tables.
Roster ==
  /\ opened \in Nat /\ versions \in Nat
  /\ DOMAIN session = 1 .. opened
  /\ \A i \in DOMAIN session : /\ DOMAIN session[i] = {"cfg", "phase"}
                               /\ session[i].cfg \in Nat /\ session[i].cfg <= versions
  /\ DOMAIN table = Remotes /\ \A h \in Remotes : table[h] \in DOMAIN session \cup {None}
  /\ DOMAIN conn = Remotes
  /\ \A h \in Remotes : conn[h] # None =>
       /\ DOMAIN conn[h] = {"version", "made", "auto"}
       /\ conn[h].version \in Nat /\ conn[h].made \in Nat /\ conn[h].version <= versions
  /\ DOMAIN request = Tasks /\ \A t \in Tasks : Fit(t)
\* The listings' sessions are current, and the tables as they should be.
Listings == Roster /\ CurrentSettings

\* What a step of request t leaves alone.
Moved(t) ==
  /\ DOMAIN request' = Tasks /\ Fit(t)'
  /\ \A u \in Tasks \ {t} : request'[u] = request[u]
\* Connections go, or change in what is not about their sessions.
ConnKept ==
  /\ DOMAIN conn' = Remotes
  /\ \A h \in Remotes : conn'[h] # None =>
       /\ conn[h] # None /\ DOMAIN conn'[h] = DOMAIN conn[h]
       /\ conn'[h].version = conn[h].version /\ conn'[h].made = conn[h].made
SessionsKept ==
  /\ opened' = opened /\ DOMAIN session' = DOMAIN session
  /\ \A i \in DOMAIN session : /\ DOMAIN session'[i] = DOMAIN session[i]
                               /\ session'[i].cfg = session[i].cfg
TableKept ==
  /\ DOMAIN table' = Remotes
  /\ \A h \in Remotes : table'[h] = None \/ table'[h] = table[h]
BehindKept == \A s : s \in behind => s \in behind'
\* An update on its way closes the session of its host, or leaves it behind.
Caught(t) ==
  request[t].at = "threads" /\ request[t].op = "update" =>
    table'[request[t].host] = None \/ table'[request[t].host] \in behind'
UpdateWaits == \A t \in Tasks : request'[t] = request[t] \/ Caught(t)

LEMMA ListingsStay ==
  ASSUME Listings, versions' \in Nat, versions <= versions', ConnKept, SessionsKept,
         TableKept, BehindKept, UpdateWaits,
         DOMAIN request' = Tasks, \A t \in Tasks : Fit(t)'
  PROVE  Listings'
<1>1. Roster'
  BY DEF Listings, Roster, ConnKept, SessionsKept, TableKept
<1>2. CurrentSettings'
  <2>1. ASSUME NEW h \in Remotes, conn'[h] # None, table'[h] # None,
               session'[table'[h]].cfg >= conn'[h].made
        PROVE  \/ session'[table'[h]].cfg = conn'[h].version \/ table'[h] \in behind'
               \/ \E t \in Tasks : /\ request'[t].op = "update" /\ request'[t].host = h
                                   /\ request'[t].at = "threads"
    <3>1. /\ conn[h] # None /\ conn'[h].version = conn[h].version
          /\ conn'[h].made = conn[h].made /\ table'[h] = table[h]
      BY <2>1 DEF ConnKept, TableKept
    <3>2. table[h] \in DOMAIN session /\ session'[table[h]].cfg = session[table[h]].cfg
      BY <2>1, <3>1 DEF Listings, Roster, SessionsKept
    <3>3. \/ session[table[h]].cfg = conn[h].version \/ table[h] \in behind
          \/ \E t \in Tasks : /\ request[t].op = "update" /\ request[t].host = h
                              /\ request[t].at = "threads"
      BY <2>1, <3>1, <3>2 DEF Listings, CurrentSettings, Remote!CurrentSettings,
                              Remote!Host, Remote!At
    <3>4. ASSUME NEW t \in Tasks, request[t].at = "threads", request[t].host = h,
                 request[t].op = "update"
          PROVE  request'[t] = request[t] \/ table'[h] \in behind'
      BY <2>1, <3>4 DEF UpdateWaits, Caught
    <3> QED
      BY <3>1, <3>2, <3>3, <3>4 DEF BehindKept
  <2> QED
    BY <2>1 DEF CurrentSettings, Remote!CurrentSettings, Remote!Host, Remote!At
<1> QED
  BY <1>1, <1>2 DEF Listings

\* The steps of a request that open nothing.
LEMMA RequestSteps ==
  ASSUME Listings, NEW t \in Tasks, versions' = versions, Moved(t), ConnKept, SessionsKept,
         TableKept, BehindKept, Caught(t)
  PROVE  Listings'
<1>1. UpdateWaits
  BY DEF UpdateWaits, Moved
<1>2. \A u \in Tasks : Fit(u)'
  BY DEF Moved, Listings, Roster, Fit
<1> QED
  BY <1>1, <1>2, ListingsStay DEF Moved, Listings, Roster

LEMMA IdleAsked == DOMAIN Remote!Idle = Asked /\ Remote!Idle.at = "idle"
BY DEF Remote!Idle, Asked

LEMMA FinishMoves ==
  ASSUME Roster, NEW t \in Tasks, Remote!Finish(t) PROVE Moved(t)
<1>1. request' = [request EXCEPT ![t] = Remote!Idle]
  BY DEF Remote!Finish
<1> QED
  BY <1>1, IdleAsked DEF Moved, Fit, Roster

LEMMA GoMoves ==
  ASSUME Roster, NEW t \in Tasks, NEW place, request[t].at # "idle", Remote!Go(t, place)
  PROVE  Moved(t) /\ request'[t].at = place /\ request'[t].mine = request[t].mine
BY DEF Remote!Go, Moved, Fit, Roster, Asked

LEMMA Same ==
  ASSUME Roster
  PROVE  /\ conn' = conn => ConnKept
         /\ session' = session /\ opened' = opened => SessionsKept
         /\ table' = table => TableKept
         /\ behind' = behind => BehindKept
BY DEF Roster, ConnKept, SessionsKept, TableKept, BehindKept

LEMMA ClosedMoves ==
  ASSUME Roster, NEW t \in Tasks, request[t].at # "idle", Remote!Closed(t)
  PROVE  Moved(t) /\ ConnKept
<1>1. CASE request[t].op = "list"
  BY <1>1, Same DEF Remote!Closed, Moved, Fit, Roster, Asked
<1>2. CASE request[t].op = "delete"
  <2>1. Remote!Finish(t) /\ conn' = [conn EXCEPT ![request[t].host] = None]
    BY <1>2 DEF Remote!Closed, Remote!Host
  <2> QED
    BY <2>1, FinishMoves DEF ConnKept, Roster
<1>3. CASE request[t].op \notin {"list", "delete"}
  <2>1. Remote!Finish(t) /\ conn' = conn
    BY <1>3 DEF Remote!Closed
  <2> QED
    BY <2>1, FinishMoves, Same
<1> QED
  BY <1>1, <1>2, <1>3

GonePhases == {"stopped", "lost"}
StopPlaces == {"stopping", "failing"}
\* Somebody refers to session s, or it is over.
Reached(s) ==
  \/ session[s].phase \in GonePhases
  \/ \E h \in Remotes : table[h] = s
  \/ \E t \in Tasks : request[t].at \in StopPlaces /\ request[t].mine = s
\* What a step of request t does to the sessions: none comes back, and the one it was
\* to stop is over.
Fates(t) ==
  /\ SessionsKept
  /\ \A s \in DOMAIN session :
       session[s].phase \in GonePhases \/ (request[t].at \in StopPlaces /\ request[t].mine = s)
         => session'[s].phase \in GonePhases
\* A step as the proofs of the two properties see it.
Clean == Listings' /\ NoneDropped'

LEMMA NothingDrops ==
  ASSUME Roster, NoneDropped, NEW t \in Tasks, Moved(t), Fates(t),
         \A h \in Remotes, s \in DOMAIN session : table[h] = s => Reached(s)'
  PROVE  NoneDropped'
<1>1. ASSUME NEW s \in 1 .. opened PROVE Reached(s)'
  <2>1. Reached(s) /\ s \in DOMAIN session
    BY <1>1 DEF NoneDropped, Remote!NoneDropped, Reached, GonePhases, StopPlaces, Roster
  <2>2. CASE session[s].phase \in GonePhases
    BY <2>1, <2>2 DEF Fates, Reached
  <2>3. ASSUME NEW h \in Remotes, table[h] = s PROVE Reached(s)'
    BY <2>1, <2>3
  <2>4. ASSUME NEW u \in Tasks, request[u].at \in StopPlaces, request[u].mine = s
        PROVE  Reached(s)'
    <3>1. CASE u = t
      BY <2>1, <2>4, <3>1 DEF Fates, Reached
    <3>2. CASE u # t
      BY <2>4, <3>2 DEF Moved, Reached
    <3> QED
      BY <3>1, <3>2
  <2> QED
    BY <2>1, <2>2, <2>3, <2>4 DEF Reached
<1>2. opened' = opened
  BY DEF Fates, SessionsKept
<1> QED
  BY <1>1, <1>2 DEF NoneDropped, Remote!NoneDropped, Reached, GonePhases, StopPlaces

\* What the table keeps is referred to.
LEMMA StaysReached ==
  ASSUME NEW h \in Remotes, NEW s, table[h] = s, table'[h] = table[h]
  PROVE  Reached(s)'
BY DEF Reached

LEMMA QuietFates ==
  ASSUME Roster, NEW t \in Tasks, request[t].at \notin StopPlaces, session' = session,
         opened' = opened
  PROVE  Fates(t)
BY Same DEF Fates

LEMMA ToldFates ==
  ASSUME Roster, NEW t \in Tasks, Remote!Told(request[t].mine), opened' = opened
  PROVE  Fates(t)
<1>1. PICK f \in GonePhases : session' = [session EXCEPT ![request[t].mine].phase = f]
  BY DEF Remote!Told, GonePhases
<1>2. SessionsKept
  BY <1>1 DEF Roster, SessionsKept
<1> QED
  BY <1>1, <1>2 DEF Roster, Fates

LEMMA CloseSteps ==
  ASSUME Listings, NoneDropped, NEW t \in Tasks, request[t].at # "idle", Remote!Close(t),
         Fates(t)
  PROVE  Clean
<1> DEFINE g == request[t].host
<1>0. Roster
  BY DEF Listings
<1>1. /\ versions' = versions /\ opened' = opened /\ behind' = behind
      /\ table' = [table EXCEPT ![g] = None]
  BY DEF Remote!Close, Remote!Host
<1>2. TableKept /\ SessionsKept /\ BehindKept /\ g \in Remotes
  BY <1>0, <1>1, Same DEF TableKept, Roster, Fates, Fit
<1>3. Caught(t) /\ table'[g] = None
  BY <1>0, <1>1, <1>2 DEF Caught, Roster
<1>4. CASE table[g] = None /\ Remote!Closed(t)
  <2>1. Moved(t) /\ ConnKept
    BY <1>0, <1>4, ClosedMoves
  <2>2. Listings'
    BY <1>1, <1>2, <1>3, <2>1, RequestSteps
  <2>3. ASSUME NEW h \in Remotes, NEW s \in DOMAIN session, table[h] = s PROVE Reached(s)'
    BY <1>0, <1>1, <1>4, <2>3, StaysReached DEF Roster
  <2> QED
    BY <1>0, <2>1, <2>2, <2>3, NothingDrops DEF Clean
<1>5. CASE /\ table[g] # None /\ conn' = conn
           /\ request' = [request EXCEPT ![t].at = "stopping", ![t].mine = table[g]]
  <2>1. Moved(t) /\ request'[t].at = "stopping" /\ request'[t].mine = table[g]
    BY <1>0, <1>5 DEF Moved, Fit, Roster, Asked
  <2>2. Listings'
    BY <1>0, <1>1, <1>2, <1>3, <1>5, <2>1, Same, RequestSteps
  <2>3. ASSUME NEW h \in Remotes, NEW s \in DOMAIN session, table[h] = s PROVE Reached(s)'
    <3>1. CASE h = g
      BY <2>1, <2>3, <3>1 DEF Reached, StopPlaces
    <3>2. CASE h # g
      BY <1>0, <1>1, <2>3, <3>2, StaysReached DEF Roster
    <3> QED
      BY <3>1, <3>2
  <2> QED
    BY <1>0, <2>1, <2>2, <2>3, NothingDrops DEF Clean
<1> QED
  BY <1>4, <1>5 DEF Remote!Close, Remote!Host

\* Steps that leave the table and move one request.
LEMMA TableRests ==
  ASSUME Listings, NoneDropped, NEW t \in Tasks, versions' = versions, table' = table,
         Moved(t), ConnKept, Fates(t), BehindKept, Caught(t)
  PROVE  Clean
<1>0. Roster
  BY DEF Listings
<1>1. SessionsKept /\ TableKept
  BY <1>0, Same DEF Fates
<1>2. \A h \in Remotes, s \in DOMAIN session : table[h] = s => Reached(s)'
  BY StaysReached
<1> QED
  BY <1>0, <1>1, <1>2, RequestSteps, NothingDrops DEF Clean

LEMMA RaiseSteps ==
  ASSUME Listings, NoneDropped, NEW t \in Tasks, request[t].at \notin {"threads", "idle"},
         Remote!Raise(t), Fates(t)
  PROVE  Clean
<1>0. Roster
  BY DEF Listings
<1>1. CASE Remote!Close(t)
  BY <1>1, CloseSteps
<1>2. CASE /\ Remote!Go(t, "close") \/ Remote!Finish(t)
           /\ UNCHANGED <<conn, versions, table, behind>>
  <2>1. Moved(t)
    BY <1>0, <1>2, GoMoves, FinishMoves
  <2>2. Caught(t)
    BY DEF Caught
  <2> QED
    BY <1>0, <1>2, <2>1, <2>2, Same, TableRests
<1> QED
  BY <1>1, <1>2 DEF Remote!Raise

\* The steps that leave conn and the table.
LEMMA PlainSteps ==
  ASSUME Listings, NoneDropped, NEW t \in Tasks,
         \/ Remote!EnsureExisting(t) \/ Remote!Started(t)
         \/ Remote!CallReturns(t) \/ Remote!Report(t) \/ Remote!RemoteEnds(t, TRUE)
         \/ Remote!RemoteEnds(t, FALSE)
  PROVE  Clean
<1>0. Roster
  BY DEF Listings
<1>1. /\ conn' = conn /\ table' = table /\ versions' = versions /\ opened' = opened
      /\ behind' = behind
  BY DEF Remote!EnsureExisting, Remote!Started,
         Remote!CallReturns, Remote!Report, Remote!RemoteEnds, Remote!registry
<1>2. request[t].at \in {"ensure", "starting", "calling", "report", "remote"}
  BY DEF Remote!EnsureExisting, Remote!Started, Remote!CallReturns,
         Remote!Report, Remote!RemoteEnds, Remote!At
<1>3. Fates(t)
  <2>1. CASE session' = session
    BY <1>0, <1>1, <1>2, <2>1, QuietFates DEF StopPlaces
  <2>2. CASE Remote!Started(t)
    <3>1. session' = [session EXCEPT ![request[t].mine].phase =
                        IF @ = "starting" THEN "running" ELSE @]
      BY <2>2 DEF Remote!Started
    <3>2. SessionsKept
      BY <1>0, <1>1, <3>1 DEF SessionsKept, Roster
    <3> QED
      BY <1>0, <1>2, <3>1, <3>2 DEF Fates, Roster, GonePhases, StopPlaces
  <2> QED
    BY <2>1, <2>2 DEF Remote!EnsureExisting, Remote!CallReturns, Remote!Report,
                      Remote!RemoteEnds, Remote!registry
<1>4. Moved(t)
  <2>1. CASE Remote!Finish(t)
    BY <1>0, <2>1, FinishMoves
  <2>2. CASE \E place : Remote!Go(t, place)
    BY <1>0, <1>2, <2>2, GoMoves
  <2>3. CASE request' = [request EXCEPT ![t].at = "ensure", ![t].rounds = 1]
    BY <1>0, <1>2, <2>3 DEF Moved, Fit, Roster, Asked
  <2> QED
    BY <2>1, <2>2, <2>3 DEF Remote!EnsureExisting, Remote!Started,
       Remote!CallReturns, Remote!Report, Remote!RemoteEnds
<1>5. Caught(t)
  BY <1>2 DEF Caught
<1> QED
  BY <1>0, <1>1, <1>3, <1>4, <1>5, Same, TableRests

\* A request that ends before the session of its host is closed leaves it behind.
LEMMA ThreadSteps ==
  ASSUME Listings, NoneDropped, NEW t \in Tasks, Remote!ThreadsRaise(t)
  PROVE  Clean
<1>0. Roster
  BY DEF Listings
<1>1. /\ conn' = conn /\ table' = table /\ versions' = versions /\ opened' = opened
      /\ session' = session /\ request[t].at = "threads" /\ Remote!Finish(t)
      /\ behind' = behind \cup (IF request[t].op = "update" THEN {table[request[t].host]} \ {None}
                                ELSE {})
  BY DEF Remote!ThreadsRaise, Remote!registry, Remote!At, Remote!Host
<1>2. Moved(t) /\ Fates(t)
  BY <1>0, <1>1, FinishMoves, QuietFates DEF StopPlaces
<1>3. Caught(t) /\ BehindKept
  BY <1>1 DEF Caught, BehindKept
<1> QED
  BY <1>0, <1>1, <1>2, <1>3, Same, TableRests

\* A failed start pops the session of its host: its own, which it stops next, or
\* another's, which is lost.
LEMMA StartFailsSteps ==
  ASSUME Listings, NoneDropped, NEW t \in Tasks, Remote!StartFails(t)
  PROVE  Clean
<1> DEFINE g == request[t].host
<1>0. Roster
  BY DEF Listings
<1>1. /\ Remote!Go(t, "failing") /\ request[t].at = "starting"
      /\ UNCHANGED <<conn, versions, opened, behind>>
      /\ table' = [table EXCEPT ![g] = None]
      /\ session' = [i \in DOMAIN session |->
           IF i = table[g] /\ i # request[t].mine THEN [session[i] EXCEPT !.phase = "lost"]
           ELSE session[i]]
  BY DEF Remote!StartFails, Remote!At, Remote!Host
<1>2. Moved(t) /\ request'[t].at = "failing" /\ request'[t].mine = request[t].mine
  BY <1>0, <1>1, GoMoves
<1>3. TableKept /\ g \in Remotes
  BY <1>0, <1>1 DEF TableKept, Roster, Fit
<1>4. SessionsKept
  BY <1>0, <1>1 DEF SessionsKept, Roster
<1>5. Fates(t)
  BY <1>0, <1>1, <1>4 DEF Fates, Roster, GonePhases, StopPlaces
<1>6. Caught(t)
  BY <1>1 DEF Caught
<1>7. Listings'
  BY <1>0, <1>1, <1>2, <1>3, <1>4, <1>6, Same, RequestSteps
<1>8. ASSUME NEW h \in Remotes, NEW s \in DOMAIN session, table[h] = s PROVE Reached(s)'
  <2>1. CASE h # g
    BY <1>0, <1>1, <1>8, <2>1, StaysReached DEF Roster
  <2>2. CASE h = g /\ s = request[t].mine
    BY <1>2, <2>2 DEF Reached, StopPlaces
  <2>3. CASE h = g /\ s # request[t].mine
    <3>1. session'[s] = [session[s] EXCEPT !.phase = "lost"]
      BY <1>1, <1>8, <2>3
    <3>2. session'[s].phase = "lost"
      BY <1>0, <1>8, <2>3, <3>1 DEF Roster
    <3> QED
      BY <2>3, <3>2 DEF Reached, GonePhases
  <2> QED
    BY <2>1, <2>2, <2>3
<1> QED
  BY <1>0, <1>2, <1>5, <1>7, <1>8, NothingDrops DEF Clean

\* A listing opens its session with the settings the connection has.
LEMMA OpenSteps ==
  ASSUME Listings, NoneDropped, NEW t \in Tasks, Remote!EnsureOpens(t)
  PROVE  Clean
<1> DEFINE g == request[t].host
<1>0. Roster
  BY DEF Listings
<1>1. /\ conn[g] # None /\ table[g] = None /\ opened' = opened + 1 /\ conn' = conn
      /\ session' = [i \in 1 .. opened + 1 |->
           IF i \in 1 .. opened THEN session[i]
           ELSE [cfg |-> conn[g].version, phase |-> "starting"]]
      /\ table' = [table EXCEPT ![g] = opened + 1] /\ versions' = versions
      /\ request' = [request EXCEPT ![t].at = "starting", ![t].mine = opened + 1]
      /\ request[t].at = "ensure" /\ behind' = behind
  BY DEF Remote!EnsureOpens, Remote!At, Remote!Host, Remote!Existing
<1>2. Moved(t) /\ g \in Remotes
  BY <1>0, <1>1 DEF Moved, Fit, Roster, Asked
<1>3. /\ opened' \in Nat /\ DOMAIN session' = 1 .. opened'
      /\ \A i \in DOMAIN session : session'[i] = session[i] /\ i \in DOMAIN session'
      /\ opened + 1 \notin DOMAIN session /\ opened + 1 \in DOMAIN session'
      /\ session'[opened + 1] = [cfg |-> conn[g].version, phase |-> "starting"]
      /\ \A i \in DOMAIN session' : i \in DOMAIN session \/ i = opened + 1
  BY <1>0, <1>1 DEF Roster
<1>4. Roster'
  <2>1. ASSUME NEW i \in DOMAIN session'
        PROVE  /\ DOMAIN session'[i] = {"cfg", "phase"}
               /\ session'[i].cfg \in Nat /\ session'[i].cfg <= versions
    BY <1>0, <1>1, <1>2, <1>3 DEF Roster
  <2>2. ASSUME NEW h \in Remotes PROVE table'[h] \in DOMAIN session' \cup {None}
    BY <1>0, <1>1, <1>3 DEF Roster
  <2>3. \A u \in Tasks : Fit(u)'
    BY <1>0, <1>2 DEF Moved, Roster, Fit
  <2>4. DOMAIN table' = Remotes /\ DOMAIN request' = Tasks /\ versions \in Nat
    BY <1>0, <1>1, <1>2 DEF Roster, Moved
  <2> QED
    BY <1>0, <1>1, <1>3, <2>1, <2>2, <2>3, <2>4 DEF Roster
<1>5. ASSUME NEW h \in Remotes, conn[h] # None, table'[h] # None,
             session'[table'[h]].cfg >= conn[h].made
      PROVE  \/ session'[table'[h]].cfg = conn[h].version \/ table'[h] \in behind'
             \/ \E u \in Tasks : /\ request'[u].op = "update" /\ request'[u].host = h
                                 /\ request'[u].at = "threads"
  <2>1. CASE h = g
    BY <1>0, <1>1, <1>2, <1>3, <2>1 DEF Roster
  <2>2. CASE h # g
    <3>1. table'[h] = table[h] /\ session'[table[h]] = session[table[h]]
      BY <1>0, <1>1, <1>3, <1>5, <2>2 DEF Roster
    <3>2. \/ session[table[h]].cfg = conn[h].version \/ table[h] \in behind
          \/ \E u \in Tasks : /\ request[u].op = "update" /\ request[u].host = h
                              /\ request[u].at = "threads"
      BY <1>5, <3>1 DEF Listings, CurrentSettings, Remote!CurrentSettings, Remote!Host,
                        Remote!At
    <3> QED
      BY <1>1, <1>2, <3>1, <3>2 DEF Moved
  <2> QED
    BY <2>1, <2>2
<1>6. Listings'
  <2>1. conn' = conn
    BY <1>1
  <2>2. CurrentSettings'
    BY <1>5, <2>1 DEF CurrentSettings, Remote!CurrentSettings, Remote!Host, Remote!At
  <2> QED
    BY <1>4, <2>2 DEF Listings
<1>7. ASSUME NEW s \in 1 .. opened' PROVE Reached(s)'
  <2>1. CASE s = opened + 1
    <3>1. table'[g] = s
      BY <1>0, <1>1, <1>2, <2>1 DEF Roster
    <3> QED
      BY <1>2, <3>1 DEF Reached
  <2>2. CASE s \in DOMAIN session
    <3>1. Reached(s) /\ session'[s] = session[s]
      BY <1>0, <1>3, <2>2 DEF NoneDropped, Remote!NoneDropped, Reached, GonePhases,
                              StopPlaces, Roster
    <3>2. CASE session[s].phase \in GonePhases
      BY <3>1, <3>2 DEF Reached
    <3>3. ASSUME NEW h \in Remotes, table[h] = s PROVE Reached(s)'
      <4>1. s # None /\ table'[h] = s
        BY <1>0, <1>1, <2>2, <3>3, ComponentConstants DEF Roster, Remote!RemoteConstants
      <4> QED
        BY <4>1 DEF Reached
    <3>4. ASSUME NEW u \in Tasks, request[u].at \in StopPlaces, request[u].mine = s
          PROVE  Reached(s)'
      <4>1. u # t
        BY <1>1, <3>4 DEF StopPlaces
      <4> QED
        BY <1>2, <3>4, <4>1 DEF Moved, Reached
    <3> QED
      BY <3>1, <3>2, <3>3, <3>4 DEF Reached
  <2> QED
    BY <1>3, <1>7, <2>1, <2>2
<1>8. NoneDropped'
  BY <1>7 DEF NoneDropped, Remote!NoneDropped, Reached, GonePhases, StopPlaces
<1> QED
  BY <1>6, <1>8 DEF Clean

LEMMA AcceptMoves ==
  ASSUME Roster, NEW t \in Tasks, NEW op, NEW h \in Remotes, NEW place,
         Remote!Accept(t, op, h, place)
  PROVE  /\ Moved(t) /\ request[t].at = "idle"
         /\ request'[t].op = op /\ request'[t].host = h /\ request'[t].at = place
<1>1. PICK rounds : request' = [request EXCEPT ![t] =
        [op |-> op, host |-> h, at |-> place, mine |-> 0, ok |-> TRUE, rounds |-> rounds]]
  BY DEF Remote!Accept
<1>2. request[t].at = "idle"
  BY DEF Remote!Accept, Remote!At
<1> QED
  BY <1>1, <1>2 DEF Moved, Fit, Roster, Asked

\* Requests that save no connection.
LEMMA BeginSteps ==
  ASSUME Listings, NoneDropped, NEW t \in Tasks, NEW h \in Remotes,
         \/ \E op \in {"list", "recents"} : Remote!BeginListing(t, h, op)
         \/ Remote!BeginUse(t, h) \/ Remote!BeginRestart(t, h) \/ Remote!BeginDelete(t, h)
         \/ \E on \in BOOLEAN : Remote!BeginAutoConnect(t, h, on)
         \/ \E op \in {"test", "install"} : Remote!BeginRemote(t, h, op)
  PROVE  Clean
<1>0. Roster
  BY DEF Listings
<1>1. /\ versions' = versions /\ table' = table /\ session' = session /\ opened' = opened
      /\ behind' = behind /\ \E op, place : Remote!Accept(t, op, h, place)
  BY DEF Remote!BeginListing, Remote!BeginUse, Remote!BeginRestart, Remote!BeginDelete,
         Remote!BeginAutoConnect, Remote!BeginRemote, Remote!registry
<1>2. Moved(t) /\ request[t].at = "idle"
  BY <1>0, <1>1, AcceptMoves
<1>3. ConnKept
  <2>1. \/ conn' = conn
        \/ conn[h] # None /\ \E on \in BOOLEAN : conn' = [conn EXCEPT ![h].auto = on]
    BY DEF Remote!BeginListing, Remote!BeginUse, Remote!BeginRestart, Remote!BeginDelete,
           Remote!BeginAutoConnect, Remote!BeginRemote
  <2>2. CASE conn' = conn
    BY <1>0, <2>2, Same
  <2>3. CASE conn[h] # None /\ \E on \in BOOLEAN : conn' = [conn EXCEPT ![h].auto = on]
    BY <1>0, <2>3 DEF ConnKept, Roster
  <2> QED
    BY <2>1, <2>2, <2>3
<1>4. Fates(t) /\ Caught(t)
  BY <1>0, <1>1, <1>2, QuietFates DEF Caught, StopPlaces
<1> QED
  BY <1>0, <1>1, <1>2, <1>3, <1>4, Same, TableRests

LEMMA ReachedRests ==
  ASSUME NoneDropped, UNCHANGED <<table, session, opened>>,
         \A t \in Tasks : request'[t] = request[t] \/ request[t].at = "idle"
  PROVE  NoneDropped'
BY DEF NoneDropped, Remote!NoneDropped

\* A connection made is newer than every session; one that is updated has the
\* update on its way to close the session it had, or left the session behind.
LEMMA SaveSteps ==
  ASSUME Listings, NoneDropped, NEW h \in Remotes, Remote!SaveConnection(h),
         UNCHANGED <<table, session, opened>>, BehindKept,
         DOMAIN request' = Tasks, \A t \in Tasks : Fit(t)',
         \A t \in Tasks : request'[t] = request[t] \/ request[t].at = "idle",
         \/ conn[h] = None \/ table[h] = None \/ table[h] \in behind'
         \/ \E t \in Tasks : /\ request'[t].op = "update" /\ request'[t].host = h
                             /\ request'[t].at = "threads"
  PROVE  Clean
<1>0. Roster
  BY DEF Listings
<1>1. PICK auto \in BOOLEAN :
        conn' = [conn EXCEPT ![h] =
          [version |-> versions + 1,
           made |-> IF conn[h] = None THEN versions + 1 ELSE conn[h].made, auto |-> auto]]
  BY DEF Remote!SaveConnection
<1>2. versions' = versions + 1 /\ versions \in Nat
  BY <1>0 DEF Remote!SaveConnection, Roster
<1>3. /\ DOMAIN conn' = Remotes /\ \A g \in Remotes \ {h} : conn'[g] = conn[g]
      /\ DOMAIN conn'[h] = {"version", "made", "auto"} /\ conn'[h].version = versions + 1
      /\ conn'[h].made = IF conn[h] = None THEN versions + 1 ELSE conn[h].made
  BY <1>0, <1>1 DEF Roster
<1>4. Roster'
  <2>1. ASSUME NEW i \in DOMAIN session
        PROVE  /\ DOMAIN session[i] = {"cfg", "phase"}
               /\ session[i].cfg \in Nat /\ session[i].cfg <= versions + 1
    BY <1>0, <1>2 DEF Roster
  <2>2. ASSUME NEW g \in Remotes, conn'[g] # None
        PROVE  /\ DOMAIN conn'[g] = {"version", "made", "auto"}
               /\ conn'[g].version \in Nat /\ conn'[g].made \in Nat
               /\ conn'[g].version <= versions + 1
    BY <1>0, <1>2, <1>3, <2>2 DEF Roster
  <2> QED
    BY <1>0, <1>2, <1>3, <2>1, <2>2 DEF Roster
<1>5. ASSUME NEW g \in Remotes, conn'[g] # None, table[g] # None,
             session[table[g]].cfg >= conn'[g].made
      PROVE  \/ session[table[g]].cfg = conn'[g].version \/ table[g] \in behind'
             \/ \E t \in Tasks : /\ request'[t].op = "update" /\ request'[t].host = g
                                 /\ request'[t].at = "threads"
  <2>1. CASE g = h
    <3>1. session[table[h]].cfg \in Nat /\ session[table[h]].cfg <= versions
      BY <1>0, <1>5, <2>1 DEF Roster
    <3>2. conn[h] # None
      BY <1>2, <1>3, <1>5, <2>1, <3>1
    <3> QED
      BY <1>5, <2>1, <3>2
  <2>2. CASE g # h
    <3>1. conn'[g] = conn[g]
      BY <1>3, <2>2
    <3>2. \/ session[table[g]].cfg = conn[g].version \/ table[g] \in behind
          \/ \E t \in Tasks : /\ request[t].op = "update" /\ request[t].host = g
                              /\ request[t].at = "threads"
      BY <1>5, <3>1 DEF Listings, CurrentSettings, Remote!CurrentSettings, Remote!Host,
                        Remote!At
    <3> QED
      BY <3>1, <3>2 DEF BehindKept
  <2> QED
    BY <2>1, <2>2
<1>6. CurrentSettings'
  BY <1>5 DEF CurrentSettings, Remote!CurrentSettings, Remote!Host, Remote!At
<1> QED
  BY <1>4, <1>6, ReachedRests DEF Clean, Listings

LEMMA UpdateSteps ==
  ASSUME Listings, NoneDropped, NEW t \in Tasks, NEW h \in Remotes, Remote!BeginUpdate(t, h)
  PROVE  Clean
<1>0. Roster
  BY DEF Listings
<1>1. Remote!SaveConnection(h) /\ UNCHANGED <<table, session, opened, behind>>
  BY DEF Remote!BeginUpdate, Remote!registry
<1>2. /\ Moved(t) /\ request[t].at = "idle" /\ request'[t].op = "update"
      /\ request'[t].host = h /\ request'[t].at = "threads"
  BY <1>0, AcceptMoves DEF Remote!BeginUpdate
<1>3. \A u \in Tasks : Fit(u)' /\ (request'[u] = request[u] \/ request[u].at = "idle")
  BY <1>0, <1>2 DEF Moved, Roster, Fit
<1> QED
  BY <1>0, <1>1, <1>2, <1>3, Same, SaveSteps DEF Moved

LEMMA CreateSteps ==
  ASSUME Listings, NoneDropped, NEW h \in Remotes, Remote!Create(h)
  PROVE  Clean
<1>1. /\ Remote!SaveConnection(h) /\ conn[h] = None /\ request' = request
      /\ UNCHANGED <<table, session, opened, behind>>
  BY DEF Remote!Create, Remote!registry
<1>2. DOMAIN request' = Tasks /\ \A u \in Tasks : Fit(u)'
  BY <1>1 DEF Listings, Roster, Fit
<1>3. BehindKept
  BY <1>1 DEF BehindKept
<1> QED
  BY <1>1, <1>2, <1>3, SaveSteps

LEMMA AppSteps ==
  ASSUME Listings, NoneDropped, NEW h \in Remotes, Remote!SaveApp(h)
  PROVE  Clean
<1>0. Roster
  BY DEF Listings
<1>1. /\ request' = request /\ UNCHANGED <<table, session, opened>>
      /\ behind' = behind \cup ({table[h]} \ {None})
  BY DEF Remote!SaveApp, Remote!registry
<1>2. DOMAIN request' = Tasks /\ \A u \in Tasks : Fit(u)'
  BY <1>0, <1>1 DEF Roster, Fit
<1>3. BehindKept /\ (table[h] = None \/ table[h] \in behind')
  BY <1>1 DEF BehindKept
<1>4. CASE Remote!SaveConnection(h)
  BY <1>1, <1>2, <1>3, <1>4, SaveSteps
<1>5. CASE versions' = versions + 1 /\ conn' = [conn EXCEPT ![h] = None]
  <2>1. ConnKept /\ SessionsKept /\ TableKept
    BY <1>0, <1>1, <1>5, Same DEF ConnKept, Roster
  <2>2. versions' \in Nat /\ versions <= versions'
    BY <1>0, <1>5 DEF Roster
  <2>3. UpdateWaits
    BY <1>1 DEF UpdateWaits
  <2> QED
    BY <1>1, <1>2, <1>3, <2>1, <2>2, <2>3, ListingsStay, ReachedRests DEF Clean
<1> QED
  BY <1>4, <1>5 DEF Remote!SaveApp

LEMMA ServerStops ==
  ASSUME Listings, NoneDropped, Remote!Stop
  PROVE  Clean
<1>0. Roster
  BY DEF Listings
<1>1. PICK done \in SUBSET Remotes :
        /\ session' = [i \in DOMAIN session |->
             IF \E h \in done : table[h] = i THEN [session[i] EXCEPT !.phase = "stopped"]
             ELSE session[i]]
        /\ \/ done = Remotes /\ table' = [h \in Remotes |-> None]
           \/ done # Remotes /\ table' = table
  BY DEF Remote!Stop
<1>2. /\ conn' = conn /\ versions' = versions /\ opened' = opened /\ request' = request
      /\ behind' = behind
  BY DEF Remote!Stop
<1>3. SessionsKept
  BY <1>0, <1>1, <1>2 DEF SessionsKept, Roster
<1>4. TableKept /\ UpdateWaits
  BY <1>0, <1>1, <1>2 DEF TableKept, UpdateWaits, Roster
<1>5. DOMAIN request' = Tasks /\ \A u \in Tasks : Fit(u)'
  BY <1>0, <1>2 DEF Roster, Fit
<1>6. Listings'
  BY <1>0, <1>2, <1>3, <1>4, <1>5, Same, ListingsStay DEF Roster
<1>7. ASSUME NEW s \in 1 .. opened PROVE Reached(s)'
  <2>1. Reached(s) /\ s \in DOMAIN session
    BY <1>0, <1>7 DEF NoneDropped, Remote!NoneDropped, Reached, GonePhases, StopPlaces, Roster
  <2>2. session'[s] = IF \E h \in done : table[h] = s THEN [session[s] EXCEPT !.phase = "stopped"]
                      ELSE session[s]
    BY <1>1, <2>1
  <2>3. CASE session[s].phase \in GonePhases
    BY <1>0, <2>1, <2>2, <2>3 DEF Reached, GonePhases, Roster
  <2>4. CASE \E h \in Remotes : table[h] = s
    <3>1. CASE table' = table
      BY <2>4, <3>1 DEF Reached
    <3>2. CASE done = Remotes
      BY <1>0, <2>1, <2>2, <2>4, <3>2 DEF Reached, GonePhases, Roster
    <3> QED
      BY <1>1, <3>1, <3>2
  <2>5. CASE \E u \in Tasks : request[u].at \in StopPlaces /\ request[u].mine = s
    BY <1>2, <2>5 DEF Reached
  <2> QED
    BY <2>1, <2>3, <2>4, <2>5 DEF Reached
<1>8. NoneDropped'
  BY <1>2, <1>7 DEF NoneDropped, Remote!NoneDropped, Reached, GonePhases, StopPlaces
<1> QED
  BY <1>6, <1>8 DEF Clean

LEMMA ListingsStep ==
  ASSUME Listings, NoneDropped, Remote!Next
  PROVE  Clean
<1>0. Roster
  BY DEF Listings
<1>1. ASSUME NEW t \in Tasks,
             \/ Remote!CloseHost(t) \/ Remote!EnsureUnknown(t) \/ Remote!FailedStops(t)
             \/ Remote!CallFails(t) \/ Remote!TimesOut(t)
      PROVE  Clean
  <2>1. /\ request[t].at # "idle"
        /\ Remote!Close(t) \/ (request[t].at # "threads" /\ Remote!Raise(t))
        /\ \/ request[t].at \notin StopPlaces /\ session' = session
           \/ Remote!Told(request[t].mine)
    BY <1>1 DEF Remote!CloseHost, Remote!EnsureUnknown, Remote!FailedStops,
                Remote!CallFails, Remote!TimesOut, Remote!At, StopPlaces
  <2>2. opened' = opened
    BY <2>1 DEF Remote!Raise, Remote!Close
  <2>3. Fates(t)
    BY <1>0, <2>1, <2>2, QuietFates, ToldFates
  <2> QED
    BY <2>1, <2>3, CloseSteps, RaiseSteps
<1>2. ASSUME NEW t \in Tasks, Remote!Stopping(t) PROVE Clean
  <2>1. /\ request[t].at = "stopping" /\ Remote!Closed(t) /\ opened' = opened
        /\ versions' = versions /\ table' = table /\ behind' = behind
        /\ Remote!Told(request[t].mine)
    BY <1>2 DEF Remote!Stopping, Remote!At
  <2>2. Moved(t) /\ ConnKept
    BY <1>0, <2>1, ClosedMoves
  <2>3. Fates(t) /\ Caught(t)
    BY <1>0, <2>1, ToldFates DEF Caught
  <2> QED
    BY <1>0, <2>1, <2>2, <2>3, Same, TableRests
<1>3. ASSUME NEW t \in Tasks, \E ok \in BOOLEAN : Remote!RemoteEnds(t, ok) PROVE Clean
  <2>1. Remote!RemoteEnds(t, TRUE) \/ Remote!RemoteEnds(t, FALSE)
    BY <1>3
  <2> QED
    BY <2>1, PlainSteps
<1>4. ASSUME NEW t \in Tasks, Remote!Step(t) PROVE Clean
  BY <1>1, <1>2, <1>3, <1>4, PlainSteps, ThreadSteps, StartFailsSteps, OpenSteps
     DEF Remote!Step
<1>5. ASSUME NEW t \in Tasks, NEW h \in Remotes,
             \/ \E op \in {"list", "recents"} : Remote!BeginListing(t, h, op)
             \/ Remote!BeginUse(t, h) \/ Remote!BeginRestart(t, h) \/ Remote!BeginUpdate(t, h)
             \/ Remote!BeginDelete(t, h)
             \/ \E on \in BOOLEAN : Remote!BeginAutoConnect(t, h, on)
             \/ \E op \in {"test", "install"} : Remote!BeginRemote(t, h, op)
      PROVE  Clean
  BY <1>5, BeginSteps, UpdateSteps
<1> QED
  BY <1>4, <1>5, CreateSteps, AppSteps, ServerStops DEF Remote!Next

LEMMA ListingsHold == Spec => [](Listings /\ NoneDropped)
<1>1. Remote!Init => Listings /\ NoneDropped
  <2>1. <<>> = [i \in 1 .. 0 |-> i] /\ DOMAIN <<>> = 1 .. 0
    OBVIOUS
  <2> QED
    BY <2>1, IdleAsked DEF Remote!Init, Listings, Roster, Fit, CurrentSettings,
       Remote!CurrentSettings, NoneDropped, Remote!NoneDropped
<1>2. Listings /\ NoneDropped /\ [Remote!Next]_remote => Listings' /\ NoneDropped'
  <2>1. ASSUME Listings, NoneDropped, Remote!Next PROVE Listings' /\ NoneDropped'
    BY <2>1, ListingsStep DEF Clean
  <2>2. ASSUME Listings, NoneDropped, UNCHANGED remote PROVE Listings' /\ NoneDropped'
    <3>1. NoneDropped'
      BY <2>2, ReachedRests DEF remote
    <3>2. Listings'
      BY <2>2 DEF remote, Listings, Roster, Fit, CurrentSettings, Remote!CurrentSettings,
                  Remote!Host, Remote!At
    <3> QED
      BY <3>1, <3>2
  <2> QED
    BY <2>1, <2>2
<1> QED
  BY <1>1, <1>2, EachAlone, PTL

\* A listing uses a session opened with the settings its connection has, unless an
\* update is on its way to close it, or nobody will: the application's settings changed
\* the connection, or the update ended where closing a session of a thread raised.
\* Saves that make a connection again are newer than every session there is.
THEOREM CurrentSettingsHolds == Spec => []CurrentSettings
<1>1. Listings => CurrentSettings
  BY DEF Listings
<1> QED
  BY <1>1, ListingsHold, PTL

\* A session that has not been stopped is in the table or a request is about to stop
\* it, whatever fails, is cancelled or overlaps, unless it is lost: its stop raised or
\* was cancelled, or a start that failed popped it in the place of its own.
THEOREM NoneDroppedHolds == Spec => []NoneDropped
BY ListingsHold, PTL
-----------------------------------------------------------------------------
(***************************************************************************)
(* Types of the workspace sessions.                                        *)
(***************************************************************************)
RequestRecords(n) == [op : Remote!Ops, host : Remotes, at : Remote!Places, mine : 0 .. n,
                      ok : BOOLEAN, rounds : 0 .. 2]
SessionRecords(n) == [cfg : 1 .. n, phase : {"starting", "running", "stopped", "lost"}]

\* The types of the workspace sessions, by what a step changes together.
ConnTyped ==
  /\ versions \in 0 .. MaxVersions /\ DOMAIN conn = Remotes
  /\ \A h \in Remotes : conn[h] # None =>
       /\ DOMAIN conn[h] = {"version", "made", "auto"}
       /\ conn[h].made \in 1 .. conn[h].version /\ conn[h].version \in 1 .. versions
       /\ conn[h].auto \in BOOLEAN
SessionsTyped == opened \in 0 .. MaxSessions /\ session \in [1 .. opened -> SessionRecords(versions)]
TableTyped == table \in [Remotes -> 1 .. opened \cup {None}]
StatusTyped == status \in [Remotes -> Remote!Statuses]
RequestsTyped == request \in [Tasks -> RequestRecords(opened)]
LimitsTyped == open \in BOOLEAN /\ requests \in 0 .. MaxRequests
BehindTyped == behind \subseteq 1 .. opened
RemoteTypes ==
  /\ ConnTyped /\ SessionsTyped /\ TableTyped /\ StatusTyped /\ RequestsTyped /\ LimitsTyped
  /\ BehindTyped

LEMMA GroupsRest ==
  ASSUME RemoteTypes
  PROVE  /\ (conn' = conn /\ versions' = versions) => ConnTyped'
         /\ (session' = session /\ opened' = opened /\ versions' = versions) => SessionsTyped'
         /\ (table' = table /\ opened' = opened) => TableTyped'
         /\ status' = status => StatusTyped'
         /\ (request' = request /\ opened' = opened) => RequestsTyped'
         /\ (open' = open /\ requests' = requests) => LimitsTyped'
         /\ (behind' = behind /\ opened' = opened) => BehindTyped'
BY DEF RemoteTypes, ConnTyped, SessionsTyped, TableTyped, StatusTyped, RequestsTyped,
       LimitsTyped, BehindTyped

LEMMA IdleRequest == Remote!Idle \in RequestRecords(0) /\ \A n \in Nat : Remote!Idle \in RequestRecords(n)
<1>1. Remotes # {}
  BY ComponentConstants DEF Remote!RemoteConstants
<1>2. PICK h : h = CHOOSE k \in Remotes : TRUE
  OBVIOUS
<1>3. h \in Remotes
  BY <1>1, <1>2
<1>4. ASSUME NEW n \in Nat PROVE Remote!Idle \in RequestRecords(n)
  <2>1. Remote!Idle = [op |-> "use", host |-> h, at |-> "idle", mine |-> 0, ok |-> TRUE, rounds |-> 0]
    BY <1>2 DEF Remote!Idle
  <2>2. "use" \in Remote!Ops /\ "idle" \in Remote!Places /\ 0 \in 0 .. n /\ 0 \in 0 .. 2
    BY DEF Remote!Ops, Remote!Places
  <2> QED
    BY <1>3, <2>1, <2>2 DEF RequestRecords
<1> QED
  BY <1>4

LEMMA RequestGoes ==
  ASSUME RemoteTypes, NEW t \in Tasks
  PROVE  /\ request[t] \in RequestRecords(opened) /\ opened \in Nat
         /\ \A place \in Remote!Places, m \in 0 .. opened, n \in 0 .. 2, ok \in BOOLEAN :
              /\ [request[t] EXCEPT !.at = place] \in RequestRecords(opened)
              /\ [request[t] EXCEPT !.at = place, !.mine = m] \in RequestRecords(opened)
              /\ [request[t] EXCEPT !.at = place, !.ok = ok] \in RequestRecords(opened)
              /\ [request[t] EXCEPT !.at = place, !.rounds = n] \in RequestRecords(opened)
<1>1. request[t] \in RequestRecords(opened) /\ opened \in Nat
  BY DEF RemoteTypes, RequestsTyped, SessionsTyped
<1>2. ASSUME NEW n \in Nat, NEW r \in RequestRecords(n), NEW place \in Remote!Places,
             NEW m \in 0 .. n, NEW k \in 0 .. 2, NEW ok \in BOOLEAN
      PROVE  /\ [r EXCEPT !.at = place] \in RequestRecords(n)
             /\ [r EXCEPT !.at = place, !.mine = m] \in RequestRecords(n)
             /\ [r EXCEPT !.at = place, !.ok = ok] \in RequestRecords(n)
             /\ [r EXCEPT !.at = place, !.rounds = k] \in RequestRecords(n)
  BY DEF RequestRecords
<1> QED
  BY <1>1, <1>2

LEMMA RequestSet ==
  ASSUME RemoteTypes, opened' = opened, NEW t \in Tasks, NEW r \in RequestRecords(opened),
         request' = [request EXCEPT ![t] = r]
  PROVE  RequestsTyped'
BY DEF RemoteTypes, RequestsTyped

LEMMA FinishTyped ==
  ASSUME RemoteTypes, opened' = opened, NEW t \in Tasks, Remote!Finish(t)
  PROVE  RequestsTyped'
BY RequestSet, IdleRequest, RequestGoes DEF Remote!Finish

LEMMA GoTyped ==
  ASSUME RemoteTypes, opened' = opened, NEW t \in Tasks, NEW place \in Remote!Places,
         Remote!Go(t, place)
  PROVE  RequestsTyped'
<1>1. PICK r : r = [request[t] EXCEPT !.at = place]
  OBVIOUS
<1>2. r \in RequestRecords(opened)
  <2>1. opened \in Nat
    BY RequestGoes
  <2>2. 0 \in 0 .. 2 /\ 0 \in 0 .. opened /\ TRUE \in BOOLEAN
    BY <2>1
  <2> QED
    BY <1>1, <2>2, RequestGoes
<1>3. request' = [request EXCEPT ![t] = r]
  BY <1>1 DEF Remote!Go
<1> QED
  BY <1>2, <1>3, RequestSet

LEMMA ShowTyped ==
  ASSUME RemoteTypes, NEW h \in Remotes, NEW value \in Remote!Statuses, Remote!Show(h, value)
  PROVE  StatusTyped'
BY DEF RemoteTypes, StatusTyped, Remote!Show

LEMMA HostTyped ==
  ASSUME RemoteTypes, NEW t \in Tasks PROVE Remote!Host(t) \in Remotes
BY RequestGoes DEF Remote!Host, RequestRecords

LEMMA ClosedTyped ==
  ASSUME RemoteTypes, opened' = opened, versions' = versions, NEW t \in Tasks, Remote!Closed(t)
  PROVE  ConnTyped' /\ StatusTyped' /\ RequestsTyped'
<1>0. PICK h \in Remotes : h = Remote!Host(t)
  BY HostTyped
<1>a. {"connecting", "disconnected", None} \subseteq Remote!Statuses
  BY DEF Remote!Statuses
<1>1. CASE request[t].op = "list"
  <2>1. /\ request' = [request EXCEPT ![t].at = "report", ![t].ok = FALSE]
        /\ UNCHANGED <<conn, status>>
    BY <1>1 DEF Remote!Closed
  <2>2. PICK r : r = [request[t] EXCEPT !.at = "report", !.ok = FALSE]
    OBVIOUS
  <2>3. r \in RequestRecords(opened)
    <3>1. opened \in Nat /\ "report" \in Remote!Places
      BY RequestGoes DEF Remote!Places
    <3>2. 0 \in 0 .. 2 /\ 0 \in 0 .. opened
      BY <3>1
    <3> QED
      BY <2>2, <3>1, <3>2, RequestGoes
  <2>4. request' = [request EXCEPT ![t] = r]
    BY <2>1, <2>2
  <2> QED
    BY <2>1, <2>3, <2>4, RequestSet, GroupsRest
<1>2. CASE request[t].op = "delete"
  <2>1. Remote!Show(h, None) /\ conn' = [conn EXCEPT ![h] = None] /\ Remote!Finish(t)
    BY <1>0, <1>2 DEF Remote!Closed
  <2>2. ConnTyped'
    BY <2>1 DEF RemoteTypes, ConnTyped
  <2> QED
    BY <1>a, <2>1, <2>2, ShowTyped, FinishTyped
<1>3. CASE request[t].op \in {"autoOn", "autoOff"}
  <2>1. /\ Remote!Show(h, IF request[t].op = "autoOn" THEN "connecting" ELSE "disconnected")
        /\ Remote!Finish(t) /\ UNCHANGED conn
    BY <1>0, <1>3 DEF Remote!Closed
  <2> QED
    BY <1>a, <2>1, ShowTyped, FinishTyped, GroupsRest
<1>4. CASE request[t].op \notin {"list", "delete", "autoOn", "autoOff"}
  <2>1. Remote!Finish(t) /\ UNCHANGED <<conn, status>>
    BY <1>4 DEF Remote!Closed
  <2> QED
    BY <2>1, FinishTyped, GroupsRest
<1> QED
  BY <1>1, <1>2, <1>3, <1>4

LEMMA CloseTyped ==
  ASSUME RemoteTypes, NEW t \in Tasks, Remote!Close(t), SessionsTyped'
  PROVE  RemoteTypes'
<1>0. PICK h \in Remotes : h = Remote!Host(t)
  BY HostTyped
<1>1. /\ table' = [table EXCEPT ![h] = None]
      /\ UNCHANGED <<versions, opened, open, requests, behind>>
  BY <1>0 DEF Remote!Close
<1>2. TableTyped'
  BY <1>1 DEF RemoteTypes, TableTyped
<1>3. LimitsTyped' /\ BehindTyped'
  BY <1>1, GroupsRest
<1>4. ConnTyped' /\ StatusTyped' /\ RequestsTyped'
  <2>1. CASE Remote!Closed(t)
    BY <1>1, <2>1, ClosedTyped
  <2>2. CASE /\ table[h] # None
             /\ request' = [request EXCEPT ![t].at = "stopping", ![t].mine = table[h]]
             /\ UNCHANGED <<conn, status>>
    <3>1. PICK m : m = table[h]
      OBVIOUS
    <3>2. m \in 0 .. opened
      BY <2>2, <3>1 DEF RemoteTypes, TableTyped
    <3>3. PICK r : r = [request[t] EXCEPT !.at = "stopping", !.mine = m]
      OBVIOUS
    <3>4. r \in RequestRecords(opened)
      <4>1. "stopping" \in Remote!Places /\ 0 \in 0 .. 2 /\ TRUE \in BOOLEAN
        BY DEF Remote!Places
      <4> QED
        BY <3>2, <3>3, <4>1, RequestGoes
    <3>5. request' = [request EXCEPT ![t] = r]
      BY <2>2, <3>1, <3>3
    <3> QED
      BY <1>1, <2>2, <3>4, <3>5, RequestSet, GroupsRest
  <2> QED
    BY <1>0, <2>1, <2>2 DEF Remote!Close
<1> QED
  BY <1>2, <1>3, <1>4 DEF RemoteTypes

LEMMA RaiseTyped ==
  ASSUME RemoteTypes, NEW t \in Tasks, Remote!Raise(t), SessionsTyped'
  PROVE  RemoteTypes'
<1>1. CASE Remote!Close(t)
  BY <1>1, CloseTyped
<1>2. CASE /\ Remote!Go(t, "close") \/ Remote!Finish(t)
           /\ UNCHANGED <<conn, versions, table, opened, status, open, requests, behind>>
  <2>1. "close" \in Remote!Places
    BY DEF Remote!Places
  <2>2. RequestsTyped'
    BY <1>2, <2>1, GoTyped, FinishTyped
  <2> QED
    BY <1>2, <2>2, GroupsRest DEF RemoteTypes
<1> QED
  BY <1>1, <1>2 DEF Remote!Raise

LEMMA PhaseSet ==
  ASSUME RemoteTypes, versions' = versions, opened' = opened, NEW i,
         NEW f, f \in {"starting", "running", "stopped", "lost"},
         session' = [session EXCEPT ![i].phase = f]
  PROVE  SessionsTyped'
<1>1. DOMAIN session = 1 .. opened /\ \A j \in DOMAIN session : session[j] \in SessionRecords(versions)
  BY DEF RemoteTypes, SessionsTyped
<1>2. ASSUME NEW n, NEW s \in SessionRecords(n) PROVE [s EXCEPT !.phase = f] \in SessionRecords(n)
  BY DEF SessionRecords
<1>3. \A j \in DOMAIN session : session'[j] \in SessionRecords(versions)
  BY <1>1, <1>2
<1> QED
  BY <1>1, <1>3 DEF RemoteTypes, SessionsTyped

LEMMA ToldPhase ==
  ASSUME RemoteTypes, versions' = versions, opened' = opened, NEW i, Remote!Told(i)
  PROVE  SessionsTyped'
<1>1. PICK f \in {"stopped", "lost"} : session' = [session EXCEPT ![i].phase = f]
  BY DEF Remote!Told
<1> QED
  BY <1>1, PhaseSet

\* The steps of a request but those that close or open.
LEMMA StepTyped ==
  ASSUME RemoteTypes, NEW t \in Tasks,
         \/ Remote!Stopping(t) \/ Remote!EnsureExisting(t) \/ Remote!Started(t)
         \/ Remote!StartFails(t) \/ Remote!ThreadsRaise(t) \/ Remote!CallReturns(t)
         \/ Remote!Report(t) \/ \E ok \in BOOLEAN : Remote!RemoteEnds(t, ok)
  PROVE  RemoteTypes'
<1>0. PICK h \in Remotes : h = Remote!Host(t)
  BY HostTyped
<1>a. /\ {"calling", "failing", "ensure", "report", "threads"} \subseteq Remote!Places
      /\ {"connecting", "connected", "error", None} \subseteq Remote!Statuses
  BY DEF Remote!Places, Remote!Statuses
<1>b. opened \in Nat /\ request[t] \in RequestRecords(opened)
  BY RequestGoes
<1>1. CASE Remote!Stopping(t)
  <2>1. /\ Remote!Closed(t)
        /\ UNCHANGED <<versions, table, opened, open, requests, behind>>
        /\ Remote!Told(request[t].mine)
    BY <1>1 DEF Remote!Stopping
  <2> QED
    BY <2>1, ClosedTyped, ToldPhase, GroupsRest DEF RemoteTypes
<1>2. CASE Remote!EnsureExisting(t)
  <2>1. /\ Remote!Go(t, "calling")
        /\ UNCHANGED <<conn, versions, table, session, opened, status, open, requests, behind>>
    BY <1>2 DEF Remote!EnsureExisting, Remote!registry
  <2> QED
    BY <1>a, <2>1, GoTyped, GroupsRest DEF RemoteTypes
<1>3. CASE Remote!Started(t)
  <2>1. /\ Remote!Go(t, "calling")
        /\ UNCHANGED <<conn, versions, table, opened, status, open, requests, behind>>
    BY <1>3 DEF Remote!Started
  <2>2. PICK i : i = request[t].mine
    OBVIOUS
  <2>3. session' = [session EXCEPT ![i].phase = IF @ = "starting" THEN "running" ELSE @]
    BY <1>3, <2>2 DEF Remote!Started
  <2>4. SessionsTyped'
    <3>1. DOMAIN session = 1 .. opened /\ \A j \in DOMAIN session : session[j] \in SessionRecords(versions)
      BY DEF RemoteTypes, SessionsTyped
    <3>2. CASE i \in DOMAIN session
      <4>1. PICK f : f = IF session[i].phase = "starting" THEN "running" ELSE session[i].phase
        OBVIOUS
      <4>2. f \in {"starting", "running", "stopped", "lost"}
        BY <3>1, <3>2, <4>1 DEF SessionRecords
      <4>3. session' = [session EXCEPT ![i].phase = f]
        BY <2>3, <4>1
      <4> QED
        BY <2>1, <4>2, <4>3, PhaseSet
    <3>3. CASE i \notin DOMAIN session
      <4>1. /\ DOMAIN session' = DOMAIN session /\ \A j \in DOMAIN session : session'[j] = session[j]
            /\ session' \in [DOMAIN session -> SessionRecords(versions)]
        BY <2>3, <3>1, <3>3
      <4> QED
        BY <2>1, <3>1, <4>1 DEF RemoteTypes, SessionsTyped
    <3> QED
      BY <3>2, <3>3
  <2> QED
    BY <1>a, <2>1, <2>4, GoTyped, GroupsRest DEF RemoteTypes
<1>4. CASE Remote!StartFails(t)
  <2>1. /\ Remote!Go(t, "failing") /\ table' = [table EXCEPT ![h] = None]
        /\ session' = [i \in DOMAIN session |->
             IF i = table[h] /\ i # request[t].mine THEN [session[i] EXCEPT !.phase = "lost"]
             ELSE session[i]]
        /\ UNCHANGED <<conn, versions, opened, status, open, requests, behind>>
    BY <1>0, <1>4 DEF Remote!StartFails
  <2>2. TableTyped'
    BY <2>1 DEF RemoteTypes, TableTyped
  <2>3. SessionsTyped'
    <3>1. DOMAIN session = 1 .. opened /\ \A j \in DOMAIN session : session[j] \in SessionRecords(versions)
      BY DEF RemoteTypes, SessionsTyped
    <3>2. ASSUME NEW r \in SessionRecords(versions)
          PROVE  [r EXCEPT !.phase = "lost"] \in SessionRecords(versions)
      BY DEF SessionRecords
    <3>3. \A j \in DOMAIN session : session'[j] \in SessionRecords(versions)
      BY <2>1, <3>1, <3>2
    <3> QED
      BY <2>1, <3>1, <3>3 DEF RemoteTypes, SessionsTyped
  <2> QED
    BY <1>a, <2>1, <2>2, <2>3, GoTyped, GroupsRest DEF RemoteTypes
<1>5. CASE Remote!ThreadsRaise(t)
  <2>1. /\ Remote!Finish(t) /\ UNCHANGED <<conn, versions, table, session, opened, status, open, requests>>
        /\ behind' \subseteq behind \cup ({table[h]} \ {None})
    BY <1>0, <1>5 DEF Remote!ThreadsRaise, Remote!registry
  <2>2. BehindTyped'
    BY <2>1 DEF RemoteTypes, TableTyped, BehindTyped
  <2> QED
    BY <2>1, <2>2, FinishTyped, GroupsRest DEF RemoteTypes
<1>6. CASE Remote!CallReturns(t)
  <2>1. /\ UNCHANGED <<conn, versions, table, session, opened, status, open, requests, behind>>
        /\ \/ request' = [request EXCEPT ![t].at = "ensure", ![t].rounds = 1]
           \/ Remote!Go(t, "report") \/ Remote!Finish(t)
    BY <1>6 DEF Remote!CallReturns, Remote!registry
  <2>2. CASE request' = [request EXCEPT ![t].at = "ensure", ![t].rounds = 1]
    <3>1. PICK r : r = [request[t] EXCEPT !.at = "ensure", !.rounds = 1]
      OBVIOUS
    <3>2. 0 \in 0 .. opened /\ 1 \in 0 .. 2
      BY <1>b
    <3>3. r \in RequestRecords(opened)
      BY <1>a, <3>1, <3>2, RequestGoes
    <3>4. request' = [request EXCEPT ![t] = r]
      BY <2>2, <3>1
    <3> QED
      BY <2>1, <3>3, <3>4, RequestSet, GroupsRest DEF RemoteTypes
  <2>3. CASE Remote!Go(t, "report") \/ Remote!Finish(t)
    BY <1>a, <2>1, <2>3, GoTyped, FinishTyped, GroupsRest DEF RemoteTypes
  <2> QED
    BY <2>1, <2>2, <2>3
<1>7. CASE Remote!Report(t)
  <2>1. /\ Remote!Finish(t)
        /\ UNCHANGED <<conn, versions, table, session, opened, open, requests, behind>>
        /\ status' = [k \in Remotes |->
             IF conn[k] = None THEN None
             ELSE IF k # Remote!Host(t) THEN status[k]
             ELSE IF request[t].ok THEN "connected" ELSE "error"]
    BY <1>7 DEF Remote!Report, Remote!registry
  <2>2. StatusTyped'
    BY <1>a, <2>1 DEF RemoteTypes, StatusTyped
  <2> QED
    BY <2>1, <2>2, FinishTyped, GroupsRest DEF RemoteTypes
<1>8. ASSUME NEW ok \in BOOLEAN, Remote!RemoteEnds(t, ok) PROVE RemoteTypes'
  <2>1. UNCHANGED <<conn, versions, table, session, opened, open, requests, behind>>
    BY <1>8 DEF Remote!RemoteEnds, Remote!registry
  <2>2. RequestsTyped'
    BY <1>a, <1>8, <2>1, GoTyped, FinishTyped DEF Remote!RemoteEnds
  <2>3. StatusTyped'
    <3>1. \/ status' = status
          \/ \E value \in {"connecting", "connected", "error"} : Remote!Show(h, value)
      BY <1>0, <1>8 DEF Remote!RemoteEnds
    <3> QED
      BY <1>a, <3>1, ShowTyped, GroupsRest
  <2> QED
    BY <2>1, <2>2, <2>3, GroupsRest DEF RemoteTypes
<1> QED
  BY <1>1, <1>2, <1>3, <1>4, <1>5, <1>6, <1>7, <1>8

LEMMA OpensTyped ==
  ASSUME RemoteTypes, NEW t \in Tasks, Remote!EnsureOpens(t)
  PROVE  RemoteTypes'
<1>0. PICK h \in Remotes : h = Remote!Host(t)
  BY HostTyped
<1>1. /\ opened < MaxSessions /\ opened' = opened + 1 /\ conn[h] # None
      /\ session' = [i \in 1 .. opened + 1 |->
           IF i \in 1 .. opened THEN session[i] ELSE [cfg |-> conn[h].version, phase |-> "starting"]]
      /\ table' = [table EXCEPT ![h] = opened + 1]
      /\ request' = [request EXCEPT ![t].at = "starting", ![t].mine = opened + 1]
      /\ UNCHANGED <<conn, versions, status, open, requests, behind>>
  BY <1>0 DEF Remote!EnsureOpens
<1>2. opened \in Nat /\ opened' \in 0 .. MaxSessions /\ opened + 1 \in 0 .. opened'
  <2>1. opened \in Nat /\ MaxSessions \in Nat
    BY ComponentConstants DEF RemoteTypes, SessionsTyped, Remote!RemoteConstants
  <2> QED
    BY <1>1, <2>1
<1>3. SessionsTyped'
  <2>1. [cfg |-> conn[h].version, phase |-> "starting"] \in SessionRecords(versions)
    BY <1>1 DEF RemoteTypes, ConnTyped, SessionRecords
  <2>2. \A i \in 1 .. opened : session[i] \in SessionRecords(versions)
    BY DEF RemoteTypes, SessionsTyped
  <2>3. session' \in [1 .. opened' -> SessionRecords(versions)]
    BY <1>1, <2>1, <2>2
  <2> QED
    BY <1>1, <1>2, <2>3 DEF SessionsTyped
<1>4. TableTyped'
  <2>1. 1 .. opened \subseteq 1 .. opened' /\ opened + 1 \in 1 .. opened'
    BY <1>1, <1>2
  <2> QED
    BY <1>1, <2>1 DEF RemoteTypes, TableTyped
<1>5. RequestsTyped'
  <2>1. 0 .. opened \subseteq 0 .. opened'
    BY <1>1, <1>2
  <2>2. RequestRecords(opened) \subseteq RequestRecords(opened')
    BY <2>1 DEF RequestRecords
  <2>3. \A u \in Tasks : request[u] \in RequestRecords(opened')
    BY <2>2, RequestGoes
  <2>4. PICK m : m = opened + 1
    OBVIOUS
  <2>5. PICK r : r = [request[t] EXCEPT !.at = "starting", !.mine = m]
    OBVIOUS
  <2>6. m \in 0 .. opened' /\ "starting" \in Remote!Places
    BY <1>2, <2>4 DEF Remote!Places
  <2>7. r \in RequestRecords(opened')
    <3>1. request[t] \in RequestRecords(opened')
      BY <2>3
    <3> QED
      BY <2>5, <2>6, <3>1 DEF RequestRecords
  <2>8. request' = [request EXCEPT ![t] = r]
    BY <1>1, <2>4, <2>5
  <2> QED
    BY <2>3, <2>7, <2>8 DEF RemoteTypes, RequestsTyped
<1>6. BehindTyped'
  BY <1>1, <1>2 DEF RemoteTypes, BehindTyped
<1> QED
  BY <1>1, <1>3, <1>4, <1>5, <1>6, GroupsRest DEF RemoteTypes

LEMMA SaveTyped ==
  ASSUME RemoteTypes, NEW h \in Remotes, Remote!SaveConnection(h), session' = session, opened' = opened
  PROVE  ConnTyped' /\ SessionsTyped'
<1>1. PICK auto \in BOOLEAN :
        conn' = [conn EXCEPT ![h] =
          [version |-> versions + 1,
           made |-> IF conn[h] = None THEN versions + 1 ELSE conn[h].made, auto |-> auto]]
  BY DEF Remote!SaveConnection
<1>2. /\ versions \in Nat /\ versions' = versions + 1 /\ versions' \in 0 .. MaxVersions
      /\ 1 .. versions \subseteq 1 .. versions' /\ versions' \in 1 .. versions'
  <2>1. versions \in Nat /\ MaxVersions \in Nat /\ versions < MaxVersions /\ versions' = versions + 1
    BY ComponentConstants DEF RemoteTypes, ConnTyped, Remote!RemoteConstants, Remote!SaveConnection
  <2> QED
    BY <2>1
<1>3. PICK m : m = IF conn[h] = None THEN versions' ELSE conn[h].made
  OBVIOUS
<1>4. m \in 1 .. versions'
  <2>1. conn[h] # None => conn[h].made \in 1 .. conn[h].version /\ conn[h].version \in 1 .. versions
    BY DEF RemoteTypes, ConnTyped
  <2>2. conn[h] # None => conn[h].made \in 1 .. versions
    BY <1>2, <2>1
  <2> QED
    BY <1>2, <1>3, <2>2
<1>5. conn' = [conn EXCEPT ![h] = [version |-> versions', made |-> m, auto |-> auto]]
  BY <1>1, <1>2, <1>3
<1>6. ASSUME NEW k \in Remotes, conn'[k] # None
      PROVE  /\ DOMAIN conn'[k] = {"version", "made", "auto"}
             /\ conn'[k].made \in 1 .. conn'[k].version /\ conn'[k].version \in 1 .. versions'
             /\ conn'[k].auto \in BOOLEAN
  <2>1. CASE k = h
    <3>1. conn'[k] = [version |-> versions', made |-> m, auto |-> auto]
      BY <1>5, <2>1 DEF RemoteTypes, ConnTyped
    <3> QED
      BY <1>2, <1>4, <3>1
  <2>2. CASE k # h
    <3>1. conn'[k] = conn[k]
      BY <1>5, <2>2
    <3> QED
      BY <1>2, <1>6, <3>1 DEF RemoteTypes, ConnTyped
  <2> QED
    BY <2>1, <2>2
<1>7. ConnTyped'
  BY <1>2, <1>5, <1>6 DEF RemoteTypes, ConnTyped
<1>8. SessionsTyped'
  <2>1. SessionRecords(versions) \subseteq SessionRecords(versions')
    BY <1>2 DEF SessionRecords
  <2> QED
    BY <2>1 DEF RemoteTypes, SessionsTyped
<1> QED
  BY <1>7, <1>8

LEMMA AcceptTyped ==
  ASSUME RemoteTypes, NEW t \in Tasks, NEW h \in Remotes, NEW op \in Remote!Ops,
         NEW place \in Remote!Places, Remote!Accept(t, op, h, place), opened' = opened, open' = open
  PROVE  RequestsTyped' /\ LimitsTyped'
<1>1. requests' \in 0 .. MaxRequests
  <2>1. requests \in Nat /\ MaxRequests \in Nat /\ requests < MaxRequests /\ requests' = requests + 1
    BY ComponentConstants DEF RemoteTypes, LimitsTyped, Remote!RemoteConstants, Remote!Accept
  <2> QED
    BY <2>1
<1>2. PICK rounds \in 1 .. (IF op = "list" THEN 2 ELSE 1) :
        request' = [request EXCEPT ![t] = [op |-> op, host |-> h, at |-> place, mine |-> 0,
                                           ok |-> TRUE, rounds |-> rounds]]
  BY DEF Remote!Accept
<1>3. rounds \in 0 .. 2
  BY <1>2
<1>4. opened \in Nat
  BY RequestGoes
<1>5. [op |-> op, host |-> h, at |-> place, mine |-> 0, ok |-> TRUE, rounds |-> rounds]
        \in RequestRecords(opened)
  BY <1>3, <1>4 DEF RequestRecords
<1>6. RequestsTyped'
  BY <1>2, <1>5, RequestSet
<1> QED
  BY <1>1, <1>6 DEF RemoteTypes, LimitsTyped

LEMMA BeginsTyped ==
  ASSUME RemoteTypes, NEW t \in Tasks, NEW h \in Remotes,
         \/ \E op \in {"list", "recents"} : Remote!BeginListing(t, h, op)
         \/ Remote!BeginUse(t, h) \/ Remote!BeginRestart(t, h) \/ Remote!BeginUpdate(t, h)
         \/ Remote!BeginDelete(t, h)
         \/ \E on \in BOOLEAN : Remote!BeginAutoConnect(t, h, on)
         \/ \E op \in {"test", "install"} : Remote!BeginRemote(t, h, op)
  PROVE  RemoteTypes'
<1>0. UNCHANGED <<table, session, opened, open, behind>>
  BY DEF Remote!BeginListing, Remote!BeginUse, Remote!BeginRestart, Remote!BeginUpdate,
         Remote!BeginDelete, Remote!BeginAutoConnect, Remote!BeginRemote, Remote!registry
<1>1. RequestsTyped' /\ LimitsTyped'
  <2>1. PICK op \in Remote!Ops, place \in Remote!Places : Remote!Accept(t, op, h, place)
    <3>1. /\ {"list", "recents", "use", "restart", "update", "delete", "autoOn", "autoOff", "test",
              "install"} = Remote!Ops
          /\ {"ensure", "threads", "remote"} \subseteq Remote!Places
      BY DEF Remote!Ops, Remote!Places
    <3> QED
      BY <3>1 DEF Remote!BeginListing, Remote!BeginUse, Remote!BeginRestart, Remote!BeginUpdate,
             Remote!BeginDelete, Remote!BeginAutoConnect, Remote!BeginRemote
  <2> QED
    BY <1>0, <2>1, AcceptTyped
<1>2. StatusTyped'
  <2>1. status' = status \/ Remote!Show(h, "connecting")
    BY DEF Remote!BeginListing, Remote!BeginUse, Remote!BeginRestart, Remote!BeginUpdate,
           Remote!BeginDelete, Remote!BeginAutoConnect, Remote!BeginRemote
  <2>2. "connecting" \in Remote!Statuses
    BY DEF Remote!Statuses
  <2> QED
    BY <2>1, <2>2, ShowTyped, GroupsRest
<1>3. TableTyped' /\ BehindTyped'
  BY <1>0, GroupsRest
<1>4. ConnTyped' /\ SessionsTyped'
  <2>1. CASE Remote!BeginUpdate(t, h)
    BY <1>0, <2>1, SaveTyped DEF Remote!BeginUpdate
  <2>2. ASSUME NEW on \in BOOLEAN, Remote!BeginAutoConnect(t, h, on)
        PROVE  ConnTyped' /\ SessionsTyped'
    <3>1. /\ versions' = versions /\ conn[h] # None
          /\ conn' = [conn EXCEPT ![h].auto = on]
      BY <2>2 DEF Remote!BeginAutoConnect
    <3>2. PICK c : c = [conn[h] EXCEPT !.auto = on]
      OBVIOUS
    <3>3. /\ DOMAIN c = {"version", "made", "auto"} /\ c.auto = on
          /\ c.version = conn[h].version /\ c.made = conn[h].made
      BY <3>1, <3>2 DEF RemoteTypes, ConnTyped
    <3>4. conn' = [conn EXCEPT ![h] = c]
      BY <3>1, <3>2
    <3>5. ConnTyped'
      BY <3>1, <3>3, <3>4 DEF RemoteTypes, ConnTyped
    <3> QED
      BY <1>0, <3>1, <3>5, GroupsRest
  <2>3. CASE conn' = conn /\ versions' = versions
    BY <1>0, <2>3, GroupsRest
  <2> QED
    BY <2>1, <2>2, <2>3
       DEF Remote!BeginListing, Remote!BeginUse, Remote!BeginRestart,
           Remote!BeginDelete, Remote!BeginRemote
<1> QED
  BY <1>1, <1>2, <1>3, <1>4 DEF RemoteTypes

LEMMA RemoteTypesStep ==
  ASSUME RemoteTypes, [Remote!Next]_remote
  PROVE  RemoteTypes'
<1>1. CASE Remote!Stop
  <2>1. PICK done \in SUBSET Remotes :
          /\ session' = [i \in DOMAIN session |->
               IF \E h \in done : table[h] = i THEN [session[i] EXCEPT !.phase = "stopped"]
               ELSE session[i]]
          /\ table' = [h \in Remotes |-> None] \/ table' = table
    BY <1>1 DEF Remote!Stop
  <2>2. open' = FALSE /\ UNCHANGED <<conn, versions, opened, status, request, requests, behind>>
    BY <1>1 DEF Remote!Stop
  <2>3. SessionsTyped'
    <3>1. DOMAIN session = 1 .. opened /\ \A j \in DOMAIN session : session[j] \in SessionRecords(versions)
      BY DEF RemoteTypes, SessionsTyped
    <3>2. ASSUME NEW r \in SessionRecords(versions)
          PROVE  [r EXCEPT !.phase = "stopped"] \in SessionRecords(versions)
      BY DEF SessionRecords
    <3>3. \A j \in DOMAIN session : session'[j] \in SessionRecords(versions)
      BY <2>1, <3>1, <3>2
    <3> QED
      BY <2>1, <2>2, <3>1, <3>3 DEF RemoteTypes, SessionsTyped
  <2>4. TableTyped' /\ LimitsTyped'
    BY <2>1, <2>2 DEF RemoteTypes, TableTyped, LimitsTyped
  <2> QED
    BY <2>2, <2>3, <2>4, GroupsRest DEF RemoteTypes
<1>2. ASSUME NEW h \in Remotes, Remote!Create(h) PROVE RemoteTypes'
  <2>1. /\ Remote!SaveConnection(h)
        /\ UNCHANGED <<table, session, opened, status, request, open, requests, behind>>
    BY <1>2 DEF Remote!Create, Remote!registry
  <2> QED
    BY <2>1, SaveTyped, GroupsRest DEF RemoteTypes
<1>3. ASSUME NEW t \in Tasks, Remote!Step(t) PROVE RemoteTypes'
  <2>2. CASE Remote!EnsureOpens(t)
    BY <2>2, OpensTyped
  <2>3. CASE \/ Remote!CloseHost(t) \/ Remote!EnsureUnknown(t) \/ Remote!FailedStops(t)
             \/ Remote!CallFails(t) \/ Remote!TimesOut(t)
    <3>1. /\ Remote!Close(t) \/ Remote!Raise(t)
          /\ session' = session \/ Remote!Told(request[t].mine)
      BY <2>3 DEF Remote!CloseHost, Remote!EnsureUnknown, Remote!FailedStops,
                  Remote!CallFails, Remote!TimesOut
    <3>2. versions' = versions /\ opened' = opened
      BY <3>1 DEF Remote!Raise, Remote!Close
    <3>3. SessionsTyped'
      BY <3>1, <3>2, ToldPhase, GroupsRest
    <3> QED
      BY <3>1, <3>3, CloseTyped, RaiseTyped
  <2> QED
    BY <1>3, <2>2, <2>3, StepTyped DEF Remote!Step
<1>4. CASE UNCHANGED remote
  BY <1>4, GroupsRest DEF remote, RemoteTypes
<1>5. ASSUME NEW h \in Remotes, Remote!SaveApp(h) PROVE RemoteTypes'
  <2>1. /\ UNCHANGED <<table, session, opened, status, request, open>>
        /\ behind' = behind \cup ({table[h]} \ {None})
        /\ requests < MaxRequests /\ requests' = requests + 1
    BY <1>5 DEF Remote!SaveApp, Remote!registry
  <2>2. BehindTyped'
    BY <2>1 DEF RemoteTypes, TableTyped, BehindTyped
  <2>4. LimitsTyped'
    <3>1. requests \in Nat /\ MaxRequests \in Nat /\ open \in BOOLEAN
      BY ComponentConstants DEF RemoteTypes, LimitsTyped, Remote!RemoteConstants
    <3> QED
      BY <2>1, <3>1 DEF LimitsTyped
  <2>3. ConnTyped' /\ SessionsTyped'
    <3>1. CASE Remote!SaveConnection(h)
      BY <2>1, <3>1, SaveTyped
    <3>2. CASE /\ versions < MaxVersions /\ versions' = versions + 1
               /\ conn' = [conn EXCEPT ![h] = None]
      <4>1. versions \in Nat /\ MaxVersions \in Nat
        BY ComponentConstants DEF RemoteTypes, ConnTyped, Remote!RemoteConstants
      <4>2. versions' \in 0 .. MaxVersions /\ 1 .. versions \subseteq 1 .. versions'
        BY <3>2, <4>1
      <4>3. ConnTyped'
        BY <3>2, <4>2 DEF RemoteTypes, ConnTyped
      <4>4. SessionRecords(versions) \subseteq SessionRecords(versions')
        BY <4>2 DEF SessionRecords
      <4> QED
        BY <2>1, <4>3, <4>4 DEF RemoteTypes, SessionsTyped
    <3> QED
      BY <1>5, <3>1, <3>2 DEF Remote!SaveApp
  <2> QED
    BY <2>1, <2>2, <2>3, <2>4, GroupsRest DEF RemoteTypes
<1> QED
  BY <1>1, <1>2, <1>3, <1>4, <1>5, BeginsTyped DEF Remote!Next

LEMMA RemoteTypesHold == Spec => []Remote!TypeOK
<1>1. Remote!Init => RemoteTypes
  <2>1. ASSUME Remote!Init PROVE RemoteTypes
    <3>1. /\ MaxSessions \in Nat /\ MaxVersions \in Nat /\ MaxRequests \in Nat
      BY ComponentConstants DEF Remote!RemoteConstants
    <3>2. 0 \in 0 .. MaxSessions /\ 0 \in 0 .. MaxVersions /\ 0 \in 0 .. MaxRequests
      BY <3>1
    <3>3. ConnTyped
      BY <2>1, <3>2 DEF Remote!Init, ConnTyped
    <3>4. SessionsTyped
      <4>1. <<>> \in [1 .. 0 -> SessionRecords(versions)]
        OBVIOUS
      <4> QED
        BY <2>1, <3>2, <4>1 DEF Remote!Init, SessionsTyped
    <3>5. TableTyped /\ StatusTyped
      BY <2>1 DEF Remote!Init, TableTyped, StatusTyped, Remote!Statuses
    <3>6. RequestsTyped
      BY <2>1, IdleRequest DEF Remote!Init, RequestsTyped
    <3>7. LimitsTyped
      BY <2>1, <3>2 DEF Remote!Init, LimitsTyped
    <3>8. BehindTyped
      BY <2>1 DEF Remote!Init, BehindTyped
    <3> QED
      BY <3>3, <3>4, <3>5, <3>6, <3>7, <3>8 DEF RemoteTypes
  <2> QED
    BY <2>1
<1>2. RemoteTypes /\ [Remote!Next]_remote => RemoteTypes'
  BY RemoteTypesStep
<1>3. RemoteTypes => Remote!TypeOK
  BY DEF RemoteTypes, ConnTyped, SessionsTyped, TableTyped, StatusTyped, RequestsTyped, LimitsTyped,
         BehindTyped, RequestRecords, SessionRecords, Remote!TypeOK
<1> QED
  BY <1>1, <1>2, <1>3, EachAlone, PTL
=============================================================================
