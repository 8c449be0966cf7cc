-------------------------- MODULE UnloadPointsProofs --------------------------
(***************************************************************************)
(* What .L, .U and .undo promise, for any number of files, addresses and   *)
(* transactions.                                                           *)
(*                                                                         *)
(* The maps are keyed by addresses, so most of the invariant (Known) holds *)
(* as long as no address that they know is used again.  That the loop of   *)
(* .U ends does not depend on it.                                          *)
(***************************************************************************)
EXTENDS UnloadPoints, SequenceLemmas

(* No two transactions lie at the same address. *)
Distinct ==
  \A i, j \in DOMAIN history : history[i].t = history[j].t => i = j

(* .U has been through when a file is loaded. *)
LoadingForgot == job.at = "load" => point[job.file] = None

(* fileOf may be out of date, but then the file was loaded again behind the  *)
(* transaction.                                                              *)
LoadedBehind ==
  \A i, j \in DOMAIN history :
    LET f == fileOf[history[i].t]
    IN f # None /\ history[j].t = point[f] => i <= j

(* gone is what it says. *)
GoneExact ==
  \A f \in File : point[f] # None => (f \in gone <=> point[f] \notin Live)

LibsKnown == \A f \in libs : point[f] # None \/ f \in gone

UntilKept == job.at = "unload" => point[job.file] = job.until

Known ==
  /\ CanBeUnloaded /\ NothingOlderReverted /\ UntilKept
  /\ LoadedBehind /\ GoneExact /\ LibsKnown

IInv ==
  /\ TypeOK /\ Distinct /\ LoopEnds /\ LoadingForgot
  /\ reused \/ Known

(***************************************************************************)
(* What the history is after a step.                                       *)
(***************************************************************************)

LEMMA LastFacts ==
  ASSUME TypeOK
  PROVE  /\ Len(history) \in Nat /\ Len(history) >= 1
         /\ DOMAIN history = 1..Len(history)
         /\ \A i \in 1..Len(history) : history[i] \in Entry
         /\ Last(history) = history[Len(history)]
         /\ Last(history).t \in Live /\ Live \subseteq Address
  <1>1. history \in Seq(Entry) /\ history # <<>>
    BY DEF TypeOK
  <1>2. Len(history) \in Nat /\ Len(history) >= 1 /\ DOMAIN history = 1..Len(history)
    BY <1>1
  <1>3. \A i \in 1..Len(history) : history[i] \in Entry
    BY <1>1
  <1>4. Last(history) = history[Len(history)]
    BY DEF Last
  <1>5. Last(history).t \in Live /\ Live \subseteq Address
    BY <1>2, <1>3, <1>4 DEF Live, Entry
  <1> QED  BY <1>2, <1>3, <1>4, <1>5

(* A transaction is appended, at an address that is not in use. *)
LEMMA CommitFacts ==
  ASSUME TypeOK, Distinct, gone \subseteq File, NEW f \in File \cup {None}, Commit(f)
  PROVE  \E a \in Address \ Live :
           /\ history' \in Seq(Entry)
           /\ Len(history') = Len(history) + 1
           /\ DOMAIN history' = 1..(Len(history) + 1)
           /\ \A i \in 1..Len(history) : history'[i] = history[i]
           /\ history'[Len(history) + 1] = [t |-> a, of |-> f, since |-> Registered]
           /\ Live' = Live \cup {a}
           /\ Distinct'
           /\ reused' = (reused \/ Named(a))
  <1>1. PICK a \in Free : /\ history' = Append(history, [t |-> a, of |-> f, since |-> Registered])
                          /\ reused' = (reused \/ Named(a))
    BY DEF Commit
  <1> DEFINE n == Len(history)
             e == [t |-> a, of |-> f, since |-> Registered]
  <1>2. a \in Address \ Live
    BY <1>1 DEF Free
  <1>3. e \in Entry
    BY <1>2 DEF Entry, Registered
  <1>4. n \in Nat /\ DOMAIN history = 1..n /\ history \in Seq(Entry)
    BY LastFacts DEF TypeOK
  <1>5. /\ history' \in Seq(Entry) /\ Len(history') = n + 1
        /\ \A i \in 1..n : history'[i] = history[i]
        /\ history'[n + 1] = e
    BY <1>1, <1>3, <1>4
  <1>6. DOMAIN history' = 1..(n + 1)
    BY <1>4, <1>5
  <1>7. e.t = a
    OBVIOUS
  <1>8. Live' = Live \cup {a}
    <2>1. \A i \in 1..(n + 1) : history'[i].t \in Live \cup {a}
      BY <1>4, <1>5, <1>7 DEF Live
    <2>2. \A i \in 1..n : history[i].t = history'[i].t /\ i \in 1..(n + 1)
      BY <1>4, <1>5
    <2>3. history'[n + 1].t = a /\ n + 1 \in 1..(n + 1)
      BY <1>4, <1>5, <1>7
    <2> HIDE DEF n, e
    <2> QED  BY <1>4, <1>6, <2>1, <2>2, <2>3 DEF Live
  <1>9. Distinct'
    <2>1. \A i \in 1..n : history[i].t # a
      BY <1>2, <1>4 DEF Live
    <2> SUFFICES ASSUME NEW i \in 1..(n + 1), NEW j \in 1..(n + 1), history'[i].t = history'[j].t
                 PROVE  i = j
      BY <1>6 DEF Distinct
    <2> QED  BY <1>4, <1>5, <1>7, <2>1 DEF Distinct
  <1> QED  BY <1>1, <1>2, <1>5, <1>6, <1>8, <1>9

(* The last transaction is dropped, unless it is the first. *)
LEMMA UnloadFacts ==
  ASSUME TypeOK, Distinct, Unload, Len(history) # 1
  PROVE  /\ history' \in Seq(Entry) /\ history' # <<>>
         /\ DOMAIN history' = 1..(Len(history) - 1)
         /\ \A i \in 1..(Len(history) - 1) : history'[i] = history[i]
         /\ Live' = Live \ {Last(history).t}
         /\ Distinct'
         /\ gone' = gone \cup {f \in File : point[f] = Last(history).t}
  <1>0. PICK n \in Nat : n = Len(history)
    BY LastFacts
  <1>1. /\ n \in Nat /\ n >= 2 /\ DOMAIN history = 1..n
        /\ Last(history) = history[n] /\ history \in Seq(Entry) /\ history # <<>>
    <2>1. n >= 1 /\ DOMAIN history = 1..n /\ Last(history) = history[n]
      BY <1>0, LastFacts
    <2>2. n # 1
      BY <1>0
    <2>3. history \in Seq(Entry) /\ history # <<>>
      BY DEF TypeOK
    <2> QED  BY <2>1, <2>2, <2>3
  <1>2. history' = Front(history) /\ gone' = gone \cup {f \in File : point[f] = Last(history).t}
    BY DEF Unload
  <1>3. /\ history' \in Seq(Entry) /\ Len(history') = n - 1
        /\ \A i \in 1..(n - 1) : history'[i] = history[i]
    BY <1>0, <1>1, <1>2, FrontFacts
  <1>4. DOMAIN history' = 1..(n - 1) /\ history' # <<>>
    BY <1>1, <1>3
  <1>5. Live' = Live \ {history[n].t}
    <2>1. \A i \in 1..n : history[i].t = history[n].t => i = n
      <3>1. n \in DOMAIN history
        BY <1>1
      <3> QED  BY <1>1, <3>1 DEF Distinct
    <2>2. Live = {history[i].t : i \in 1..n} /\ Live' = {history'[i].t : i \in 1..(n - 1)}
      BY <1>1, <1>4 DEF Live
    <2>3. ASSUME NEW a \in Live' PROVE a \in Live /\ a # history[n].t
      <3>1. PICK i \in 1..(n - 1) : a = history'[i].t
        BY <2>2
      <3>2. i \in 1..n /\ i # n /\ a = history[i].t
        BY <1>1, <1>3, <3>1
      <3> QED  BY <2>1, <2>2, <3>2
    <2>4. ASSUME NEW a \in Live, a # history[n].t PROVE a \in Live'
      <3>1. PICK i \in 1..n : a = history[i].t
        BY <2>2
      <3>2. i \in 1..(n - 1) /\ a = history'[i].t
        BY <1>1, <1>3, <2>4, <3>1
      <3> QED  BY <2>2, <3>2
    <2> QED  BY <2>3, <2>4
  <1>6. Distinct'
    BY <1>1, <1>3, <1>4 DEF Distinct
  <1> QED  BY <1>0, <1>1, <1>2, <1>3, <1>4, <1>5, <1>6

-----------------------------------------------------------------------------
(***************************************************************************)
(* The invariant is inductive: one lemma for each action.                  *)
(***************************************************************************)

LEMMA NoneFacts == None \notin File /\ None \notin Address /\ Lib \subseteq File
  BY UnloadAssumption

LEMMA AtPromptFacts ==
  /\ AtPrompt.at = "prompt" /\ AtPrompt.file = None /\ AtPrompt.until = None
  /\ AtPrompt \in Job
  BY DEF AtPrompt, Job

LEMMA InitIInv == Init => IInv
  <1> SUFFICES ASSUME Init PROVE IInv
    OBVIOUS
  <1>1. PICK a \in Address : history = <<[t |-> a, of |-> None, since |-> {}]>>
    BY DEF Init
  <1>2. /\ history \in Seq(Entry) /\ history # <<>> /\ DOMAIN history = 1..1
        /\ history[1] = [t |-> a, of |-> None, since |-> {}]
    <2>1. [t |-> a, of |-> None, since |-> {}] \in Entry
      BY DEF Entry
    <2> QED  BY <1>1, <2>1
  <1>3. history[1].t = a /\ history[1].of = None
    BY <1>2
  <1>4. TypeOK
    BY <1>2, AtPromptFacts DEF Init, TypeOK
  <1>5. Distinct /\ LoopEnds /\ LoadingForgot /\ UntilKept
    BY <1>2, AtPromptFacts DEF Init, Distinct, LoopEnds, LoadingForgot, UntilKept
  <1>6. CanBeUnloaded /\ NothingOlderReverted /\ LoadedBehind
    BY <1>2, <1>3 DEF CanBeUnloaded, NothingOlderReverted, LoadedBehind
  <1>7. GoneExact /\ LibsKnown
    BY DEF Init, GoneExact, LibsKnown
  <1> QED  BY <1>4, <1>5, <1>6, <1>7 DEF IInv, Known

(* A new transaction lies at an address that neither map knows, so nothing   *)
(* that the maps say changes, and the registered files precede it.           *)
LEMMA LineKeeps ==
  ASSUME IInv, Line
  PROVE  IInv'
  <1>1. /\ TypeOK /\ Distinct /\ LoopEnds /\ LoadingForgot
        /\ job = AtPrompt /\ UNCHANGED <<point, fileOf, libs, job, gone>> /\ Commit(None)
    BY DEF IInv, Line
  <1>2. PICK n \in Nat : n = Len(history)
    BY <1>1, LastFacts
  <1>3. PICK a \in Address \ Live :
           /\ history' \in Seq(Entry)
           /\ Len(history') = n + 1
           /\ DOMAIN history' = 1..(n + 1)
           /\ \A i \in 1..n : history'[i] = history[i]
           /\ history'[n + 1] = [t |-> a, of |-> None, since |-> Registered]
           /\ Live' = Live \cup {a}
           /\ Distinct'
           /\ reused' = (reused \/ Named(a))
    BY <1>1, <1>2, CommitFacts DEF TypeOK
  <1>4. DOMAIN history = 1..n /\ n >= 1 /\ \A i \in 1..n : history[i] \in Entry /\ history[i].t \in Live
    BY <1>1, <1>2, LastFacts DEF Live
  <1>5. TypeOK'
    <2>1. history' # <<>>
      BY <1>3
    <2>2. reused' \in BOOLEAN
      BY <1>3
    <2> QED  BY <1>1, <1>3, <2>1, <2>2 DEF TypeOK
  <1>6. LoopEnds' /\ LoadingForgot' /\ UntilKept'
    BY <1>1, AtPromptFacts DEF LoopEnds, LoadingForgot, UntilKept
  <1>7. ASSUME ~reused' PROVE Known'
    <2>1. Known /\ fileOf[a] = None /\ \A f \in File : point[f] # a
      BY <1>3, <1>7 DEF IInv, Named
    <2>2. history'[n + 1].t = a /\ history'[n + 1].of = None /\ history'[n + 1].since = Registered
      BY <1>3
    <2>3. CanBeUnloaded'
      <3> SUFFICES ASSUME NEW i \in 1..(n + 1), history'[i].of # None
                   PROVE  \E j \in 1..(i - 1) : history'[j].t = point[history'[i].of]
        BY <1>1, <1>3 DEF CanBeUnloaded
      <3>1. i \in 1..n /\ history'[i] = history[i]
        BY <1>3, <2>2
      <3>2. PICK j \in 1..(i - 1) : history[j].t = point[history[i].of]
        BY <1>4, <2>1, <3>1 DEF Known, CanBeUnloaded
      <3>3. history'[j] = history[j]
        BY <1>3, <3>1
      <3> QED  BY <3>1, <3>2, <3>3
    <2>4. NothingOlderReverted'
      <3> SUFFICES ASSUME NEW f \in File, NEW i \in 1..(n + 1), NEW j \in 1..(n + 1),
                          i < j, history'[i].t = point[f]
                   PROVE  f \in history'[j].since \cup {history'[j].of}
        BY <1>1, <1>3 DEF NothingOlderReverted
      <3>1. i \in 1..n /\ history'[i] = history[i]
        BY <1>3
      <3>2. CASE j \in 1..n
        BY <1>3, <1>4, <2>1, <3>1, <3>2 DEF Known, NothingOlderReverted
      <3>3. CASE j = n + 1
        <4>1. point[f] \in Live /\ Live \subseteq Address
          BY <1>1, <1>4, <3>1, LastFacts
        <4>2. f \in Registered
          BY <2>1, <4>1, NoneFacts DEF Known, GoneExact, Registered
        <4> QED  BY <2>2, <3>3, <4>2
      <3> QED  BY <3>2, <3>3
    <2>5. LoadedBehind'
      <3> SUFFICES ASSUME NEW i \in 1..(n + 1), NEW j \in 1..(n + 1),
                          fileOf[history'[i].t] # None,
                          history'[j].t = point[fileOf[history'[i].t]]
                   PROVE  i <= j
        BY <1>1, <1>3 DEF LoadedBehind
      <3>1. i \in 1..n /\ history'[i] = history[i]
        BY <1>3, <2>1, <2>2
      <3>2. fileOf[history[i].t] \in File
        BY <1>1, <1>4, <3>1 DEF TypeOK, Entry
      <3>3. j \in 1..n /\ history'[j] = history[j]
        BY <1>3, <2>1, <2>2, <3>1, <3>2
      <3> QED  BY <1>4, <2>1, <3>1, <3>3 DEF Known, LoadedBehind
    <2>6. GoneExact'
      BY <1>1, <1>3, <2>1 DEF Known, GoneExact
    <2>7. LibsKnown'
      BY <1>1, <2>1 DEF Known, LibsKnown
    <2> QED  BY <1>6, <2>3, <2>4, <2>5, <2>6, <2>7 DEF Known
  <1> QED  BY <1>3, <1>5, <1>6, <1>7 DEF IInv

(* Interpreter::unload(1), whether or not the first transaction is reached.  *)
LEMMA UnloadKeepsPrefix ==
  ASSUME TypeOK, Distinct, Unload
  PROVE  \E m \in 1..Len(history) :
           /\ history' \in Seq(Entry) /\ history' # <<>>
           /\ DOMAIN history' = 1..m
           /\ \A i \in 1..m : history'[i] = history[i]
           /\ Live' \subseteq Live
           /\ Distinct'
           /\ gone' = gone \cup {f \in File : point[f] \in Live \ Live'}
           /\ Len(history) # 1 => m = Len(history) - 1
  <1>1. PICK n \in Nat : n = Len(history)
    BY LastFacts
  <1>2. n >= 1 /\ DOMAIN history = 1..n /\ Last(history).t \in Live /\ history \in Seq(Entry) /\ history # <<>>
    BY <1>1, LastFacts DEF TypeOK
  <1>3. CASE n = 1
    <2>1. UNCHANGED <<history, gone>>
      BY <1>1, <1>3 DEF Unload
    <2>2. Live' = Live /\ Distinct'
      BY <2>1 DEF Live, Distinct
    <2> WITNESS 1 \in 1..Len(history)
    <2> QED  BY <1>1, <1>2, <1>3, <2>1, <2>2
  <1>4. CASE n # 1
    <2>1. /\ history' \in Seq(Entry) /\ history' # <<>>
          /\ DOMAIN history' = 1..(n - 1)
          /\ \A i \in 1..(n - 1) : history'[i] = history[i]
          /\ Live' = Live \ {Last(history).t}
          /\ Distinct'
          /\ gone' = gone \cup {f \in File : point[f] = Last(history).t}
      BY <1>1, <1>4, UnloadFacts
    <2>2. Live \ Live' = {Last(history).t}
      BY <1>2, <2>1
    <2>3. n - 1 \in 1..Len(history)
      BY <1>1, <1>2, <1>4
    <2>4. gone' = gone \cup {f \in File : point[f] \in Live \ Live'}
      BY <2>1, <2>2
    <2>5. Live' \subseteq Live
      BY <2>1
    <2> WITNESS n - 1 \in 1..Len(history)
    <2> QED  BY <1>1, <2>1, <2>4, <2>5
  <1> QED  BY <1>3, <1>4

(* What the maps say of a history holds for the one without the last         *)
(* transaction, too; and files that have left it need no unload point.       *)
LEMMA PrefixKeeps ==
  ASSUME TypeOK, Known, NEW m \in 1..Len(history),
         history' \in Seq(Entry), DOMAIN history' = 1..m,
         \A i \in 1..m : history'[i] = history[i],
         Live' \subseteq Live,
         gone' = gone \cup {f \in File : point[f] \in Live \ Live'},
         fileOf' = fileOf, point' \in [File -> Address \cup {None}],
         \A f \in File : point'[f] # point[f] =>
           point'[f] = None /\ \A i \in 1..m : history[i].of # f
  PROVE  CanBeUnloaded' /\ NothingOlderReverted' /\ LoadedBehind' /\ GoneExact'
  <1>1. PICK n \in Nat : n = Len(history)
    BY LastFacts
  <1>2. DOMAIN history = 1..n /\ m \in 1..n /\ 1..m \subseteq 1..n
    BY <1>1, LastFacts
  <1>3. \A i \in 1..m : history'[i] = history[i] /\ history[i] \in Entry /\ history[i].t \in Address
    BY <1>1, <1>2, LastFacts DEF Entry
  <1>4. None \notin Address /\ None \notin File
    BY NoneFacts
  <1>5. \A f \in File, i \in 1..m : history[i].t = point'[f] => point[f] = point'[f]
    BY <1>3, <1>4
  <1>6. CanBeUnloaded'
    <2> SUFFICES ASSUME NEW i \in 1..m, history[i].of # None
                 PROVE  \E j \in 1..(i - 1) : history'[j].t = point'[history[i].of]
      BY <1>3 DEF CanBeUnloaded
    <2>1. PICK j \in 1..(i - 1) : history[j].t = point[history[i].of]
      BY <1>2 DEF Known, CanBeUnloaded
    <2>2. history[i].of \in File
      BY <1>3 DEF Entry
    <2>3. point'[history[i].of] = point[history[i].of] /\ j \in 1..m
      BY <1>2, <2>2
    <2> QED  BY <1>3, <2>1, <2>3
  <1>7. NothingOlderReverted'
    <2> SUFFICES ASSUME NEW f \in File, NEW i \in 1..m, NEW j \in 1..m,
                        i < j, history[i].t = point'[f]
                 PROVE  f \in history[j].since \cup {history[j].of}
      BY <1>3 DEF NothingOlderReverted
    <2>1. history[i].t = point[f]
      BY <1>5
    <2> QED  BY <1>2, <2>1 DEF Known, NothingOlderReverted
  <1>8. LoadedBehind'
    <2> SUFFICES ASSUME NEW i \in 1..m, NEW j \in 1..m,
                        fileOf[history[i].t] # None,
                        history[j].t = point'[fileOf[history[i].t]]
                 PROVE  i <= j
      BY <1>3 DEF LoadedBehind
    <2>1. fileOf[history[i].t] \in File
      BY <1>3 DEF TypeOK
    <2>2. history[j].t = point[fileOf[history[i].t]]
      BY <1>5, <2>1
    <2> QED  BY <1>2, <2>2 DEF Known, LoadedBehind
  <1>9. GoneExact'
    <2> SUFFICES ASSUME NEW f \in File, point'[f] # None
                 PROVE  f \in gone' <=> point'[f] \notin Live'
      BY DEF GoneExact
    <2>1. point'[f] = point[f]
      OBVIOUS
    <2>2. f \in gone <=> point[f] \notin Live
      BY <2>1 DEF Known, GoneExact
    <2> QED  BY <2>1, <2>2
  <1> QED  BY <1>6, <1>7, <1>8, <1>9

LEMMA UndoKeeps ==
  ASSUME IInv, Undo
  PROVE  IInv'
  <1>1. /\ TypeOK /\ Distinct /\ LoopEnds /\ LoadingForgot /\ Unload
        /\ job = AtPrompt /\ UNCHANGED <<point, fileOf, libs, job, reused>>
    BY DEF IInv, Undo
  <1>2. PICK m \in 1..Len(history) :
           /\ history' \in Seq(Entry) /\ history' # <<>>
           /\ DOMAIN history' = 1..m
           /\ \A i \in 1..m : history'[i] = history[i]
           /\ Live' \subseteq Live
           /\ Distinct'
           /\ gone' = gone \cup {f \in File : point[f] \in Live \ Live'}
    BY <1>1, UnloadKeepsPrefix
  <1>3. TypeOK'
    BY <1>1, <1>2 DEF TypeOK
  <1>4. LoopEnds' /\ LoadingForgot' /\ UntilKept'
    BY <1>1, AtPromptFacts DEF LoopEnds, LoadingForgot, UntilKept
  <1>5. ASSUME Known PROVE Known'
    <2>1. CanBeUnloaded' /\ NothingOlderReverted' /\ LoadedBehind' /\ GoneExact'
      BY <1>1, <1>2, <1>5, PrefixKeeps DEF TypeOK
    <2>2. LibsKnown'
      BY <1>1, <1>2, <1>5 DEF Known, LibsKnown
    <2> QED  BY <1>4, <2>1, <2>2 DEF Known
  <1> QED  BY <1>1, <1>2, <1>3, <1>4, <1>5 DEF IInv

(* The file of the last transaction, which lies behind its unload point or   *)
(* is registered with it, leaves no transaction.                             *)
LEMMA RevertOneKeeps ==
  ASSUME IInv, RevertOne
  PROVE  IInv'
  <1>1. /\ TypeOK /\ Distinct /\ LoopEnds /\ LoadingForgot /\ Unload
        /\ job.at = "unload" /\ Last(history).t # job.until
        /\ point' = PointsWithout(Last(history).t)
        /\ UNCHANGED <<fileOf, libs, job, reused>>
    BY DEF IInv, RevertOne
  <1>2. PICK n \in Nat : n = Len(history)
    BY <1>1, LastFacts
  <1>3. /\ DOMAIN history = 1..n /\ n >= 1 /\ Last(history) = history[n]
        /\ \A i \in 1..n : history[i] \in Entry
    BY <1>1, <1>2, LastFacts
  <1>4. PICK u \in 1..n : history[u].t = job.until
    BY <1>1, <1>3 DEF LoopEnds, Live
  <1>5. u # n /\ n # 1
    BY <1>1, <1>3, <1>4
  <1>6. PICK m \in 1..n :
           /\ history' \in Seq(Entry) /\ history' # <<>>
           /\ DOMAIN history' = 1..m
           /\ \A i \in 1..m : history'[i] = history[i]
           /\ Live' \subseteq Live
           /\ Distinct'
           /\ gone' = gone \cup {f \in File : point[f] \in Live \ Live'}
           /\ m = n - 1
    BY <1>1, <1>2, <1>5, UnloadKeepsPrefix
  <1>7. PICK t \in Address : t = history[n].t
    BY <1>3 DEF Entry
  <1>8. PICK g \in File \cup {None} : g = fileOf[t]
    BY <1>1 DEF TypeOK
  <1>9. point' = IF g = None THEN point ELSE [point EXCEPT ![g] = None]
    BY <1>1, <1>3, <1>7, <1>8 DEF PointsWithout
  <1>10. /\ point' \in [File -> Address \cup {None}]
         /\ \A f \in File : point'[f] = IF f = g THEN None ELSE point[f]
    BY <1>1, <1>8, <1>9, NoneFacts DEF TypeOK
  <1>11. TypeOK'
    BY <1>1, <1>6, <1>10 DEF TypeOK
  <1>12. LoopEnds'
    <2>1. u \in DOMAIN history' /\ history'[u].t = job.until
      BY <1>3, <1>4, <1>5, <1>6
    <2> QED  BY <1>1, <2>1 DEF LoopEnds, Live
  <1>13. LoadingForgot'
    BY <1>1 DEF LoadingForgot
  <1>14. ASSUME Known PROVE Known'
    <2>1. ASSUME g # None, NEW i \in 1..n, history[i].t = point[g] PROVE i = n
      <3>1. n \in 1..n /\ fileOf[history[n].t] = g
        BY <1>3, <1>7, <1>8
      <3>2. n <= i
        BY <1>3, <1>14, <2>1, <3>1 DEF Known, LoadedBehind
      <3> QED  BY <3>2
    <2>2. ASSUME g # None, NEW i \in 1..m PROVE history[i].of # g
      <3> SUFFICES ASSUME history[i].of = g PROVE FALSE
        OBVIOUS
      <3>1. i \in 1..n /\ i < n
        BY <1>6
      <3>2. PICK j \in 1..(i - 1) : history[j].t = point[g]
        BY <1>3, <1>14, <2>2, <3>1 DEF Known, CanBeUnloaded
      <3>3. j \in 1..n /\ j < n
        BY <3>1
      <3> QED  BY <2>1, <2>2, <3>2, <3>3
    <2>3. \A f \in File : point'[f] # point[f] => point'[f] = None /\ \A i \in 1..m : history[i].of # f
      BY <1>10, <2>2, NoneFacts
    <2>4. CanBeUnloaded' /\ NothingOlderReverted' /\ LoadedBehind' /\ GoneExact'
      BY <1>1, <1>2, <1>6, <1>10, <1>14, <2>3, PrefixKeeps
    <2>5. UntilKept'
      <3>1. job.file \in File /\ point[job.file] = job.until
        BY <1>1, <1>14 DEF TypeOK, Job, Known, UntilKept
      <3>2. job.file # g
        BY <1>4, <1>5, <2>1, <3>1, NoneFacts
      <3> QED  BY <1>1, <1>10, <3>1, <3>2 DEF UntilKept
    <2>6. LibsKnown'
      <3> SUFFICES ASSUME NEW f \in libs PROVE point'[f] # None \/ f \in gone'
        BY <1>1 DEF LibsKnown
      <3>1. f \in File /\ (point[f] # None \/ f \in gone)
        BY <1>1, <1>14, NoneFacts DEF TypeOK, Known, LibsKnown
      <3>2. CASE f # g \/ f \in gone
        BY <1>6, <1>10, <3>1, <3>2
      <3>3. CASE f = g /\ f \notin gone
        <4>1. g # None /\ point[g] \in Live
          BY <1>14, <3>1, <3>3, NoneFacts DEF Known, GoneExact
        <4>2. PICK i \in 1..n : history[i].t = point[g]
          BY <1>3, <4>1 DEF Live
        <4>3. point[g] = t
          BY <1>7, <2>1, <4>1, <4>2
        <4>4. t \notin Live'
          <5> SUFFICES ASSUME NEW j \in 1..m, history'[j].t = t PROVE FALSE
            BY <1>6 DEF Live
          <5>1. j \in 1..n /\ j # n /\ history[j].t = history[n].t /\ n \in 1..n
            BY <1>3, <1>6, <1>7
          <5> QED  BY <1>1, <1>3, <5>1 DEF Distinct
        <4> QED  BY <1>6, <3>1, <3>3, <4>1, <4>3, <4>4
      <3> QED  BY <3>2, <3>3
    <2> QED  BY <2>4, <2>5, <2>6 DEF Known
  <1> QED  BY <1>1, <1>6, <1>11, <1>12, <1>13, <1>14 DEF IInv

(* A file that is no longer registered has no transaction in the history, if *)
(* the history ends at its unload point or the point is not there.           *)
LEMMA ForgetKeeps ==
  ASSUME TypeOK, Known, NEW f \in File, NEW l \in BOOLEAN,
         \A i \in DOMAIN history : history[i].of # f,
         Forget(f, l), UNCHANGED <<history, fileOf, hist>>
  PROVE  CanBeUnloaded' /\ NothingOlderReverted' /\ LoadedBehind' /\ GoneExact'
  <1>1. /\ Len(history) \in 1..Len(history)
        /\ history \in Seq(Entry) /\ DOMAIN history = 1..Len(history)
    BY LastFacts DEF TypeOK
  <1>2. /\ point' \in [File -> Address \cup {None}]
        /\ \A h \in File : point'[h] = IF h = f THEN None ELSE point[h]
    BY DEF TypeOK, Forget
  <1>3. history' = history /\ gone' = gone /\ fileOf' = fileOf /\ Live' = Live
    BY DEF hist, Live
  <1>4. gone' = gone \cup {h \in File : point[h] \in Live \ Live'}
    BY <1>3
  <1>5. \A h \in File : point'[h] # point[h] =>
           point'[h] = None /\ \A i \in 1..Len(history) : history[i].of # h
    BY <1>1, <1>2
  <1> QED  BY <1>1, <1>2, <1>3, <1>4, <1>5, PrefixKeeps

LEMMA AfterUnloadFacts ==
  ASSUME TypeOK, NEW f \in File, NEW l \in BOOLEAN, Forget(f, l),
         UNCHANGED <<history, fileOf, hist>>, libs' \subseteq Lib
  PROVE  TypeOK' /\ LoopEnds' /\ LoadingForgot' /\ UntilKept'
  <1> DEFINE loading == [at |-> "load", file |-> f, until |-> None, load |-> TRUE]
  <1>1. job' \in {loading, AtPrompt}
    BY DEF Forget, AfterUnload
  <1>2. /\ loading \in Job /\ loading.at = "load" /\ loading.file = f /\ loading.until = None
    BY DEF Job
  <1>3. point' \in [File -> Address \cup {None}] /\ point'[f] = None
    BY DEF TypeOK, Forget
  <1>4. /\ job' \in Job /\ job'.at # "unload" /\ job'.until = None
        /\ job'.at = "prompt" <=> job'.file = None
        /\ job'.at = "load" => job'.file = f
    BY <1>1, <1>2, AtPromptFacts, NoneFacts
  <1>5. TypeOK'
    <2>1. UNCHANGED <<history, fileOf, reused, gone>>
      BY DEF hist
    <2> QED  BY <1>3, <1>4, <2>1 DEF TypeOK
  <1> QED  BY <1>3, <1>4, <1>5 DEF LoopEnds, LoadingForgot, UntilKept

LEMMA UCommandKeeps ==
  ASSUME IInv, NEW f \in File, NEW l \in BOOLEAN, UCommand(f, l)
  PROVE  IInv'
  <1>1. /\ TypeOK /\ Distinct /\ LoopEnds /\ LoadingForgot
        /\ UNCHANGED <<history, fileOf, libs, hist>>
    BY DEF IInv, UCommand
  <1>2. /\ history' = history /\ fileOf' = fileOf /\ libs' = libs /\ reused' = reused
        /\ gone' = gone /\ Live' = Live /\ Distinct'
    BY <1>1 DEF hist, Live, Distinct
  <1>3. CASE point[f] # None /\ InterpreterHasTransaction(point[f])
    <2> DEFINE run == [at |-> "unload", file |-> f, until |-> point[f], load |-> l]
    <2>1. job' = run /\ point' = point
      BY <1>3 DEF UCommand
    <2>2. run \in Job /\ run.at = "unload" /\ run.file = f /\ run.until = point[f]
      BY <1>1 DEF Job, TypeOK
    <2>3. TypeOK'
      BY <1>1, <1>2, <1>3, <2>1, <2>2, NoneFacts DEF TypeOK
    <2>4. LoopEnds' /\ LoadingForgot' /\ UntilKept'
      BY <1>2, <1>3, <2>1, <2>2 DEF LoopEnds, LoadingForgot, UntilKept, InterpreterHasTransaction
    <2>5. Known => Known'
      BY <1>2, <2>1, <2>4 DEF Known, CanBeUnloaded, NothingOlderReverted, LoadedBehind, GoneExact, LibsKnown
    <2> QED  BY <1>2, <2>3, <2>4, <2>5 DEF IInv
  <1>4. CASE ~(point[f] # None /\ InterpreterHasTransaction(point[f]))
    <2>1. Forget(f, l)
      BY <1>4 DEF UCommand
    <2>2. TypeOK' /\ LoopEnds' /\ LoadingForgot' /\ UntilKept'
      <3>1. libs' \subseteq Lib
        BY <1>1, <1>2 DEF TypeOK
      <3> QED  BY <1>1, <2>1, <3>1, AfterUnloadFacts
    <2>3. ASSUME Known PROVE Known'
      <3>1. \A i \in DOMAIN history : history[i].of # f
        <4> SUFFICES ASSUME NEW i \in DOMAIN history, history[i].of = f PROVE FALSE
          OBVIOUS
        <4>1. PICK j \in 1..(i - 1) : history[j].t = point[f]
          BY <2>3, NoneFacts DEF Known, CanBeUnloaded
        <4>2. j \in DOMAIN history
          BY <1>1, LastFacts
        <4>3. point[f] \in Live /\ point[f] # None
          BY <1>1, <4>1, <4>2, LastFacts, NoneFacts DEF Live
        <4> QED  BY <1>4, <4>3 DEF InterpreterHasTransaction
      <3>2. CanBeUnloaded' /\ NothingOlderReverted' /\ LoadedBehind' /\ GoneExact'
        BY <1>1, <2>1, <2>3, <3>1, ForgetKeeps
      <3>3. LibsKnown'
        <4>1. \A h \in File : h # f => point'[h] = point[h]
          BY <1>1, <2>1 DEF TypeOK, Forget
        <4>2. point[f] # None => f \in gone
          BY <1>4, <2>3 DEF Known, GoneExact, InterpreterHasTransaction
        <4>3. libs \subseteq File
          BY <1>1, NoneFacts DEF TypeOK
        <4> QED  BY <1>2, <2>3, <4>1, <4>2, <4>3 DEF Known, LibsKnown
      <3> QED  BY <2>2, <3>2, <3>3 DEF Known
    <2> QED  BY <1>1, <1>2, <2>2, <2>3 DEF IInv
  <1> QED  BY <1>3, <1>4

LEMMA UnloadedKeeps ==
  ASSUME IInv, Unloaded
  PROVE  IInv'
  <1>1. /\ TypeOK /\ Distinct /\ LoopEnds /\ LoadingForgot
        /\ job.at = "unload" /\ Last(history).t = job.until
        /\ libs' = LibsWithout(job.file) /\ Forget(job.file, job.load)
        /\ UNCHANGED <<history, fileOf, hist>>
    BY DEF IInv, Unloaded
  <1>2. PICK f \in File : f = job.file
    BY <1>1 DEF TypeOK, Job
  <1>3. PICK l \in BOOLEAN : l = job.load
    BY <1>1 DEF TypeOK, Job
  <1>4. /\ history' = history /\ reused' = reused /\ gone' = gone /\ Distinct'
        /\ libs' = libs \ {f} /\ libs' \subseteq Lib /\ libs \subseteq File /\ Forget(f, l)
    BY <1>1, <1>2, <1>3, NoneFacts DEF hist, Distinct, LibsWithout, TypeOK
  <1>5. TypeOK' /\ LoopEnds' /\ LoadingForgot' /\ UntilKept'
    BY <1>1, <1>4, AfterUnloadFacts
  <1>6. ASSUME Known PROVE Known'
    <2>1. PICK n \in Nat : n = Len(history)
      BY <1>1, LastFacts
    <2>2. DOMAIN history = 1..n /\ n >= 1 /\ history[n].t = point[f]
      <3>1. point[f] = job.until
        BY <1>1, <1>2, <1>6 DEF Known, UntilKept
      <3> QED  BY <1>1, <2>1, <3>1, LastFacts
    <2>3. \A i \in DOMAIN history : history[i].of # f
      <3> SUFFICES ASSUME NEW i \in 1..n, history[i].of = f PROVE FALSE
        BY <2>2
      <3>1. PICK j \in 1..(i - 1) : history[j].t = point[f]
        BY <1>6, <2>2, NoneFacts DEF Known, CanBeUnloaded
      <3>2. j \in 1..n /\ n \in 1..n /\ j # n
        BY <2>2
      <3> QED  BY <1>1, <2>2, <3>1, <3>2 DEF Distinct
    <2>4. CanBeUnloaded' /\ NothingOlderReverted' /\ LoadedBehind' /\ GoneExact'
      BY <1>1, <1>4, <1>6, <2>3, ForgetKeeps
    <2>5. LibsKnown'
      <3>1. \A h \in File : h # f => point'[h] = point[h]
        BY <1>1, <1>4 DEF TypeOK, Forget
      <3> QED  BY <1>4, <1>6, <3>1 DEF Known, LibsKnown
    <2> QED  BY <1>5, <2>4, <2>5 DEF Known
  <1> QED  BY <1>4, <1>5, <1>6 DEF IInv

(* The unload point is the last transaction: everything registered lies      *)
(* before it or is it, and what the file commits comes after it.             *)
LEMMA LCommandKeeps ==
  ASSUME IInv, LCommand
  PROVE  IInv'
  <1>1. /\ TypeOK /\ Distinct /\ LoadingForgot /\ job.at = "load"
        /\ Commit(job.file) \/ UNCHANGED <<history, reused>>
        /\ RegisterUnloadPoint(job.file, Last(history).t)
        /\ libs' = libs \cup ({job.file} \cap Lib) /\ job' = AtPrompt
    BY DEF IInv, LCommand, PointBeforeLoad
  <1>2. PICK f \in File : f = job.file
    BY <1>1 DEF TypeOK, Job
  <1>3. PICK n \in Nat : n = Len(history)
    BY <1>1, LastFacts
  <1>4. /\ DOMAIN history = 1..n /\ n >= 1 /\ Last(history) = history[n]
        /\ \A i \in 1..n : history[i] \in Entry /\ history[i].t \in Live
        /\ Live \subseteq Address /\ history \in Seq(Entry) /\ history # <<>>
    BY <1>1, <1>3, LastFacts DEF TypeOK, Live
  <1>5. PICK t \in Live : t = history[n].t
    BY <1>4
  <1>6. /\ point[f] = None /\ gone' = gone \ {f}
        /\ point' \in [File -> Address \cup {None}]
        /\ \A h \in File : point'[h] = IF h = f THEN t ELSE point[h]
        /\ fileOf' \in [Address -> File \cup {None}]
        /\ \A a \in Address : fileOf'[a] = IF a = t THEN f ELSE fileOf[a]
    <2>1. point[f] = None
      BY <1>1, <1>2 DEF LoadingForgot
    <2>2. /\ point' = [point EXCEPT ![f] = t]
          /\ fileOf' = [fileOf EXCEPT ![t] = f] /\ gone' = gone \ {f}
      BY <1>1, <1>2, <1>4, <1>5, <2>1 DEF RegisterUnloadPoint
    <2> QED  BY <1>1, <1>4, <2>1, <2>2 DEF TypeOK
  (* Whether or not something was committed: m is the new length. *)
  <1>7. PICK m \in {n, n + 1} :
           /\ history' \in Seq(Entry) /\ history' # <<>> /\ DOMAIN history' = 1..m
           /\ \A i \in 1..n : history'[i] = history[i]
           /\ m = n + 1 =>
                /\ history'[m].t \in Address \ Live
                /\ history'[m].of = f /\ history'[m].since = Registered
                /\ ~reused' => ~Named(history'[m].t)
           /\ Live' = IF m = n THEN Live ELSE Live \cup {history'[m].t}
           /\ Distinct'
           /\ reused' \in BOOLEAN /\ (~reused' => ~reused)
    <2>1. CASE UNCHANGED <<history, reused>>
      <3>1. Live' = Live /\ Distinct' /\ history' = history /\ reused' = reused
        BY <1>1, <2>1 DEF Live, Distinct
      <3>2. reused \in BOOLEAN
        BY <1>1 DEF TypeOK
      <3> WITNESS n \in {n, n + 1}
      <3> QED  BY <1>4, <3>1, <3>2
    <2>2. CASE Commit(f)
      <3>1. PICK a \in Address \ Live :
              /\ history' \in Seq(Entry)
              /\ Len(history') = n + 1
              /\ DOMAIN history' = 1..(n + 1)
              /\ \A i \in 1..n : history'[i] = history[i]
              /\ history'[n + 1] = [t |-> a, of |-> f, since |-> Registered]
              /\ Live' = Live \cup {a}
              /\ Distinct'
              /\ reused' = (reused \/ Named(a))
        BY <1>1, <1>3, <2>2, CommitFacts DEF TypeOK
      <3>2. history'[n + 1].t = a /\ history'[n + 1].of = f /\ history'[n + 1].since = Registered
        BY <3>1
      <3>3. history' # <<>> /\ n + 1 # n
        BY <3>1
      <3>4. reused' \in BOOLEAN /\ (~reused' => ~reused /\ ~Named(a))
        BY <3>1
      <3> WITNESS n + 1 \in {n, n + 1}
      <3> QED  BY <3>1, <3>2, <3>3, <3>4
    <2> QED  BY <1>1, <1>2, <2>1, <2>2
  <1>8. TypeOK'
    <2>1. libs' \subseteq Lib
      BY <1>1 DEF TypeOK
    <2>2. gone' \subseteq File
      BY <1>1, <1>6 DEF TypeOK
    <2> QED  BY <1>1, <1>6, <1>7, <2>1, <2>2, AtPromptFacts DEF TypeOK
  <1>9. LoopEnds' /\ LoadingForgot' /\ UntilKept'
    BY <1>1, AtPromptFacts DEF LoopEnds, LoadingForgot, UntilKept
  <1>10. ASSUME ~reused' PROVE Known'
    <2>1. Known /\ (m = n + 1 => fileOf[history'[m].t] = None /\ \A h \in File : point[h] # history'[m].t)
      BY <1>7, <1>10 DEF IInv, Named
    <2>2. /\ \A i \in 1..n : history[i].t \in Address /\ history[i].of \in File \cup {None}
          /\ \A i \in 1..m : i \notin 1..n => i = m /\ m = n + 1
      BY <1>4, <1>7 DEF Entry
    <2>3. \A i \in 1..n : history[i].of # f
      <3> SUFFICES ASSUME NEW i \in 1..n, history[i].of = f PROVE FALSE
        OBVIOUS
      <3>1. PICK j \in 1..(i - 1) : history[j].t = point[f]
        BY <1>4, <2>1, NoneFacts DEF Known, CanBeUnloaded
      <3>2. j \in 1..n
        BY <3>1
      <3> QED  BY <1>6, <2>2, <3>1, <3>2, NoneFacts
    <2>4. CanBeUnloaded'
      <3> SUFFICES ASSUME NEW i \in 1..m, history'[i].of # None
                   PROVE  \E j \in 1..(i - 1) : history'[j].t = point'[history'[i].of]
        BY <1>7 DEF CanBeUnloaded
      <3>1. CASE i \in 1..n
        <4>1. PICK j \in 1..(i - 1) : history[j].t = point[history[i].of]
          BY <1>4, <1>7, <2>1, <3>1 DEF Known, CanBeUnloaded
        <4>2. j \in 1..n /\ history'[j] = history[j] /\ history'[i] = history[i]
          BY <1>7, <3>1
        <4>3. history[i].of \in File /\ history[i].of # f
          BY <2>2, <2>3, <3>1, <4>2
        <4>4. point'[history[i].of] = point[history[i].of]
          BY <1>6, <4>3
        <4> QED  BY <4>1, <4>2, <4>4
      <3>2. CASE i \notin 1..n
        <4>1. i = n + 1 /\ history'[i].of = f
          BY <1>7, <2>2, <3>2
        <4>2. n \in 1..(i - 1) /\ history'[n].t = point'[f]
          BY <1>4, <1>5, <1>6, <1>7, <4>1
        <4> QED  BY <4>1, <4>2
      <3> QED  BY <3>1, <3>2
    <2>5. NothingOlderReverted'
      <3> SUFFICES ASSUME NEW h \in File, NEW i \in 1..m, NEW j \in 1..m,
                          i < j, history'[i].t = point'[h]
                   PROVE  h \in history'[j].since \cup {history'[j].of}
        BY <1>7 DEF NothingOlderReverted
      <3>1. i \in 1..n /\ history'[i] = history[i]
        BY <1>7, <2>2
      <3>2. CASE h = f
        <4>1. history[i].t = history[n].t /\ n \in 1..n
          BY <1>4, <1>5, <1>6, <3>1, <3>2
        <4>2. i = n
          BY <1>1, <1>4, <3>1, <4>1 DEF Distinct
        <4>3. j = m /\ m = n + 1
          BY <2>2, <4>2
        <4> QED  BY <1>7, <3>2, <4>3
      <3>3. CASE h # f /\ j \in 1..n
        BY <1>4, <1>6, <1>7, <2>1, <3>1, <3>3 DEF Known, NothingOlderReverted
      <3>4. CASE h # f /\ j \notin 1..n
        <4>1. point[h] \in Live /\ point[h] # None
          BY <1>4, <1>6, <3>1, <3>4, NoneFacts
        <4>2. h \in Registered
          BY <2>1, <4>1 DEF Known, GoneExact, Registered
        <4> QED  BY <1>7, <2>2, <3>4, <4>2
      <3> QED  BY <3>2, <3>3, <3>4
    <2>6. LoadedBehind'
      <3> SUFFICES ASSUME NEW i \in 1..m, NEW j \in 1..m,
                          fileOf'[history'[i].t] # None,
                          history'[j].t = point'[fileOf'[history'[i].t]]
                   PROVE  i <= j
        BY <1>7 DEF LoadedBehind
      <3>1. i \in 1..n /\ history'[i] = history[i] /\ history[i].t \in Address
        <4> SUFFICES ASSUME i \notin 1..n PROVE FALSE
          BY <1>7, <2>2
        <4>1. i = m /\ m = n + 1 /\ history'[m].t # t
          BY <1>7, <2>2
        <4> QED  BY <1>6, <1>7, <2>1, <4>1
      <3>2. CASE fileOf'[history'[i].t] = f
        <4>1. history'[j].t = t
          BY <1>6, <3>2
        <4>2. j \in 1..n
          BY <1>7, <2>2, <4>1
        <4>3. j = n
          BY <1>1, <1>4, <1>5, <1>7, <4>1, <4>2 DEF Distinct
        <4> QED  BY <3>1, <4>3
      <3>3. CASE fileOf'[history'[i].t] # f
        <4>1. fileOf'[history'[i].t] = fileOf[history[i].t] /\ fileOf[history[i].t] \in File
          BY <1>1, <1>6, <3>1, <3>3 DEF TypeOK
        <4>2. history'[j].t = point[fileOf[history[i].t]]
          BY <1>6, <3>3, <4>1
        <4>3. j \in 1..n /\ history'[j] = history[j]
          BY <1>7, <2>1, <2>2, <4>1, <4>2
        <4> QED  BY <1>4, <2>1, <3>1, <4>1, <4>2, <4>3 DEF Known, LoadedBehind
      <3> QED  BY <3>2, <3>3
    <2>7. GoneExact'
      <3> SUFFICES ASSUME NEW h \in File, point'[h] # None
                   PROVE  h \in gone' <=> point'[h] \notin Live'
        BY DEF GoneExact
      <3>1. CASE h = f
        BY <1>6, <1>7, <3>1
      <3>2. CASE h # f
        BY <1>6, <1>7, <2>1, <3>2 DEF Known, GoneExact
      <3> QED  BY <3>1, <3>2
    <2>8. LibsKnown'
      <3>1. libs' \subseteq libs \cup {f} /\ libs \subseteq File
        BY <1>1, <1>2, NoneFacts DEF TypeOK
      <3>2. point'[f] # None
        BY <1>4, <1>6, NoneFacts
      <3> QED  BY <1>6, <2>1, <3>1, <3>2 DEF Known, LibsKnown
    <2> QED  BY <1>9, <2>4, <2>5, <2>6, <2>7, <2>8 DEF Known
  <1> QED  BY <1>7, <1>8, <1>9, <1>10 DEF IInv

LEMMA LCommandFailsKeeps ==
  ASSUME IInv, LCommandFails
  PROVE  IInv'
  <1>1. /\ TypeOK /\ Distinct /\ job.at = "load" /\ job' = AtPrompt
        /\ UNCHANGED <<history, point, fileOf, libs, hist>>
    BY DEF IInv, LCommandFails
  <1>2. TypeOK'
    BY <1>1, AtPromptFacts DEF TypeOK, hist
  <1>3. Distinct' /\ LoopEnds' /\ LoadingForgot' /\ UntilKept'
    BY <1>1, AtPromptFacts DEF Distinct, LoopEnds, LoadingForgot, UntilKept
  <1>4. Known => Known'
    BY <1>1, <1>3 DEF hist, Live, Known, CanBeUnloaded, NothingOlderReverted, LoadedBehind, GoneExact, LibsKnown
  <1>5. reused' = reused
    BY <1>1 DEF hist
  <1> QED  BY <1>2, <1>3, <1>4, <1>5 DEF IInv

LEMMA StutterKeeps ==
  ASSUME IInv, UNCHANGED vars
  PROVE  IInv'
  <1>1. UNCHANGED <<history, point, fileOf, libs, job, reused, gone>>
    BY DEF vars, hist
  <1>2. Live' = Live
    BY <1>1 DEF Live
  <1> QED  BY <1>1, <1>2 DEF IInv, TypeOK, Distinct, LoopEnds, LoadingForgot, Known,
             CanBeUnloaded, NothingOlderReverted, UntilKept, LoadedBehind, GoneExact, LibsKnown

LEMMA NextIInv == IInv /\ [Next]_vars => IInv'
  <1> SUFFICES ASSUME IInv, [Next]_vars PROVE IInv'
    OBVIOUS
  <1>1. CASE Line
    BY <1>1, LineKeeps
  <1>2. CASE Undo
    BY <1>2, UndoKeeps
  <1>3. CASE \E f \in File, l \in BOOLEAN : UCommand(f, l)
    BY <1>3, UCommandKeeps
  <1>4. CASE RevertOne
    BY <1>4, RevertOneKeeps
  <1>5. CASE Unloaded
    BY <1>5, UnloadedKeeps
  <1>6. CASE LCommand
    BY <1>6, LCommandKeeps
  <1>7. CASE LCommandFails
    BY <1>7, LCommandFailsKeeps
  <1>8. CASE UNCHANGED vars
    BY <1>8, StutterKeeps
  <1> QED  BY <1>1, <1>2, <1>3, <1>4, <1>5, <1>6, <1>7, <1>8 DEF Next

LEMMA IInvImplies ==
  IInv => /\ TypeOK /\ LoopEnds /\ LoadedAreRegistered /\ RevertsOnlyLater
          /\ IteratorValid /\ LibrariesRegistered
  BY DEF IInv, Known, LoadedAreRegistered, RevertsOnlyLater, IteratorValid,
         LibrariesRegistered, UntilKept, LibsKnown

-----------------------------------------------------------------------------
(***************************************************************************)
(* The theorems.                                                           *)
(***************************************************************************)

(* The inductive invariant holds in every state. *)
THEOREM Invariance == Spec => []IInv
  BY InitIInv, NextIInv, PTL DEF Spec

(* The members of MetaSema keep their types, and the first transaction stays.*)
THEOREM TypeCorrect == Spec => []TypeOK
  BY Invariance, IInvImplies, PTL

(* The loop of .U always has its unload point ahead of it, even if addresses *)
(* are used again: it never reaches the first transaction that unload()      *)
(* refuses to revert.                                                        *)
THEOREM PointAhead == Spec => []LoopEnds
  BY Invariance, IInvImplies, PTL

(* As long as no address that the maps know is used again, a file in the     *)
(* history is registered, so that .L does not load it twice.                 *)
THEOREM NeverLoadedTwice == Spec => []LoadedAreRegistered
  BY Invariance, IInvImplies, PTL

(* Under the same condition .U f reverts f and what came after it, only.     *)
THEOREM OlderSurvives == Spec => []RevertsOnlyLater
  BY Invariance, IInvImplies, PTL

(* Under the same condition the iterator that .U keeps over its loop stays   *)
(* valid.                                                                    *)
THEOREM ErasedOnce == Spec => []IteratorValid
  BY Invariance, IInvImplies, PTL

(* Under the same condition a library that is loaded can be unloaded, unless *)
(* its unload point is gone.                                                 *)
THEOREM LibrariesFound == Spec => []LibrariesRegistered
  BY Invariance, IInvImplies, PTL

(* Together: under the same condition what is loaded stays registered,       *)
(* whatever is loaded, unloaded and undone.                                  *)
THEOREM PointsStayed == Spec => []PointsStay
  BY TypeCorrect, NeverLoadedTwice, LibrariesFound, PTL DEF PointsStay

=============================================================================
