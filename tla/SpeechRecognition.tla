-------------------------- MODULE SpeechRecognition --------------------------
(***************************************************************************)
(* SpeechRecognitionService and the WebSocket connections that dictate     *)
(* (/api/speech/ws).  A session is created in a worker thread: the first   *)
(* one loads the recognizer under _load_lock, the others find it cached.   *)
(* Saving the speech settings runs on the event loop and takes the same    *)
(* lock: while a thread loads a model, the loop waits and no connection is *)
(* served.  The check of the cache without the lock reads it twice, which  *)
(* the interpreter lock keeps together.  Configurations stand for model    *)
(* directory, provider and threads; what is heard is counted in words.     *)
(***************************************************************************)
EXTENDS Integers

CONSTANTS
  Clients,
  Configs,
  MaxSaves,  \* bound on the saves of the settings
  MaxWords,  \* bound on the words of a stream
  None

RecognitionConstants ==
  {MaxSaves, MaxWords} \subseteq Nat /\ None \notin Configs \cup Clients

VARIABLES
  config,      \* of the service
  recognizer,  \* the configuration the cached one was loaded with, or None
  lock,        \* who holds _load_lock, or None
  saving,      \* the configuration a save is about to set, or None
  present,     \* the configurations whose model files are there
  stream,      \* of each client: see IsStream
  saves

recognitionVars == <<config, recognizer, lock, saving, present, stream, saves>>
service == <<config, recognizer, lock, saving, present, saves>>

Places == {"closed", "creating", "waiting", "loading", "ready", "decoding", "finishing"}
\* The recognizer it uses, the words committed and heard, and those last shown.
IsStream(s) ==
  /\ s.at \in Places /\ s.model \in Configs \cup {None}
  /\ {s.committed, s.heard, s.shown} \subseteq 0 .. MaxWords /\ s.final \in BOOLEAN
Fresh(place) == [at |-> place, model |-> None, committed |-> 0, heard |-> 0,
                 shown |-> 0, final |-> FALSE]

TypeOK ==
  /\ config \in Configs /\ {recognizer, saving} \subseteq Configs \cup {None}
  /\ lock \in Clients \cup {None} /\ present \subseteq Configs
  /\ \A c \in Clients : IsStream(stream[c])
  /\ saves \in 0 .. MaxSaves

Init ==
  /\ config \in Configs /\ recognizer = None /\ lock = None /\ saving = None
  /\ present \in SUBSET Configs /\ saves = 0
  /\ stream = [c \in Clients |-> Fresh("closed")]

LoopFree == saving = None
Serves(c, place) == LoopFree /\ stream[c].at = place
Put(c, s) == stream' = [stream EXCEPT ![c] = s]

Connect(c) ==
  Serves(c, "closed") /\ Put(c, Fresh("creating")) /\ UNCHANGED service

Opened(c, k) == Put(c, [stream[c] EXCEPT !.at = "ready", !.model = k])

\* In the worker thread, without the lock.
Cached(c) ==
  /\ stream[c].at = "creating" /\ UNCHANGED service
  /\ \/ recognizer # None /\ Opened(c, recognizer)
     \/ recognizer = None /\ Put(c, [stream[c] EXCEPT !.at = "waiting"])

LoadRecognizer(c) ==
  /\ stream[c].at = "waiting" /\ lock = None
  /\ UNCHANGED <<config, recognizer, saving, present, saves>>
  /\ \/ recognizer # None /\ Opened(c, recognizer) /\ UNCHANGED lock
     \/ /\ recognizer = None /\ lock' = c
        /\ Put(c, [stream[c] EXCEPT !.at = "loading", !.model = config])

Loaded(c) ==
  /\ stream[c].at = "loading" /\ stream[c].model \in present /\ lock' = None
  /\ recognizer' = stream[c].model /\ Opened(c, stream[c].model)
  /\ UNCHANGED <<config, saving, present, saves>>

\* Files are missing, or the library or the model cannot be loaded: code 1011.
LoadFails(c) ==
  /\ stream[c].at = "loading" /\ lock' = None /\ Put(c, Fresh("closed"))
  /\ UNCHANGED <<config, recognizer, saving, present, saves>>

\* PUT /api/config/speech: the file is written, then the loop asks the lock.
SaveSettings(k) ==
  /\ LoopFree /\ saves < MaxSaves /\ saves' = saves + 1 /\ saving' = k
  /\ UNCHANGED <<config, recognizer, lock, present, stream>>

\* A mutant: the configuration is changed without the lock.
ReconfigureAtOnce ==
  /\ saving # None
  /\ config' = saving /\ recognizer' = None /\ saving' = None
  /\ UNCHANGED <<lock, present, stream, saves>>

Reconfigure ==
  /\ saving # None /\ lock = None
  /\ config' = saving /\ recognizer' = None /\ saving' = None
  /\ UNCHANGED <<lock, present, stream, saves>>

(***************************************************************************)
(* A stream in use.  Decoding runs in a thread, one chunk after the other. *)
(***************************************************************************)
Audio(c) ==
  /\ Serves(c, "ready") /\ Put(c, [stream[c] EXCEPT !.at = "decoding"])
  /\ UNCHANGED service

Text(s) == s.committed + s.heard

\* A chunk adds words or none; at an endpoint they are committed and the
\* recognizer begins anew.  The client is sent what has changed.
Decoded(c, words, endpoint) ==
  LET s == stream[c]
      text == Text(s) + words
  IN
  /\ Serves(c, "decoding") /\ text <= MaxWords /\ UNCHANGED service
  /\ Put(c, [s EXCEPT !.at = "ready", !.shown = text,
                      !.committed = IF endpoint THEN text ELSE @,
                      !.heard = IF endpoint THEN 0 ELSE @ + words])

\* finish decodes what is left and sends the final text.
Finish(c) ==
  Serves(c, "ready") /\ Put(c, [stream[c] EXCEPT !.at = "finishing"]) /\ UNCHANGED service

Finished(c, words) ==
  LET text == Text(stream[c]) + words IN
  /\ Serves(c, "finishing") /\ text <= MaxWords /\ UNCHANGED service
  /\ Put(c, [stream[c] EXCEPT !.at = "closed", !.committed = text, !.heard = 0,
                              !.shown = text, !.final = TRUE])

\* Cancelled, disconnected, sent something malformed, or decoding failed.
Ends(c) ==
  /\ LoopFree /\ stream[c].at \in {"ready", "decoding", "finishing"}
  /\ Put(c, Fresh("closed")) /\ UNCHANGED service

Next ==
  \/ Reconfigure \/ \E k \in Configs : SaveSettings(k)
  \/ \E c \in Clients :
       \/ Connect(c) \/ Cached(c) \/ LoadRecognizer(c) \/ Loaded(c) \/ LoadFails(c)
       \/ Audio(c) \/ Finish(c) \/ Ends(c)
       \/ \E words \in 0 .. 1 : Finished(c, words)
       \/ \E words \in 0 .. 1, endpoint \in BOOLEAN : Decoded(c, words, endpoint)

Spec == Init /\ [][Next]_recognitionVars

(* The cached recognizer is of the configuration in force, whatever save   *)
(* falls into the load of a model: no later dictation uses a model that    *)
(* has been configured away.                                               *)
RecognizerIsCurrent == recognizer \in {None, config}
=============================================================================
