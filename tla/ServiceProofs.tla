--------------------------- MODULE ServiceProofs ---------------------------
(***************************************************************************)
(* The MCP server and the retrieval engine.  Observers end up knowing what *)
(* there is, for any threads, observers, levels and bounds; what the lists *)
(* of a session promise is kept by later answers, for any requests in any  *)
(* order; and the indexes, the cache and the store of the engine agree,    *)
(* for any documents, queries, options and failing writes.                 *)
(***************************************************************************)
EXTENDS McpNotifications, McpCatalog, RagStore, SequenceTheorems, CountingTheorems

-----------------------------------------------------------------------------
(* Notifications                                                           *)

Note == [kind : Kinds \cup {"message"}, level : Nat]
Work == [at : {"notify", "broadcast"}, note : Note, left : Seq(Observers), lowest : Nat]

NoteTypeInv ==
    /\ registry \in [Kinds -> Nat \ {0}]
    /\ minLevel \in LogLevels
    /\ observers \in Seq(Observers)
    /\ todo \in [Notifiers -> Work \cup {Idle}]
    /\ view \in [Observers -> [Kinds -> Nat]]

\* A broadcast goes to observers; it is never of resources.
BroadcastInv ==
    \A t \in Notifiers : todo[t] \in Work =>
        /\ Range(todo[t].left) \subseteq Range(observers)
        /\ todo[t].note.kind # "resources"
        /\ todo[t].note.kind = "message" => todo[t].note.level >= todo[t].lowest

\* An observer that has not listed everything has not seen resources: no notice of them
\* completes its view.  Who is no observer has seen nothing.
UnlistedInv ==
    \A o \in Observers :
        /\ o \notin Range(observers) => \A k \in Kinds : view[o][k] = 0
        /\ (\E k \in Kinds : view[o][k] = 0) => view[o]["resources"] = 0

\* Thread t has still to tell observer o of a change of this kind.
Coming(t, o, kind) ==
    /\ todo[t] \in Work /\ todo[t].note.kind = kind
    /\ todo[t].at = "broadcast" => o \in Range(todo[t].left)

\* ViewsCatchUp in these terms.
CatchUpInv ==
    \A o \in Range(observers), kind \in {"tools", "prompts"} :
        \/ \E k \in Kinds : view[o][k] = 0
        \/ view[o][kind] = registry[kind]
        \/ \E t \in Notifiers : Coming(t, o, kind)

NoteInv == NoteTypeInv /\ BroadcastInv /\ UnlistedInv /\ CatchUpInv /\ LoggedAboveMinimum

-----------------------------------------------------------------------------
\* A notifier that is at something is not idle.
LEMMA WorkIsNotIdle == Idle \notin Work /\ \A w \in Work \cup {Idle} : (w.at = "idle") <=> (w \notin Work)
BY DEF Work, Idle

\* What is left of a sequence of observers, and what one more adds to it.
LEMMA RangeOfTail ==
    ASSUME NEW S, NEW s \in Seq(S), s # << >>
    PROVE  /\ Head(s) \in S /\ Tail(s) \in Seq(S) /\ Head(s) \in Range(s)
           /\ Range(s) \subseteq Range(Tail(s)) \cup {Head(s)}
           /\ Range(Tail(s)) \subseteq Range(s)
<1>1. /\ Head(s) \in S /\ Tail(s) \in Seq(S) /\ Len(Tail(s)) = Len(s) - 1
      /\ \A i \in 1..Len(Tail(s)) : Tail(s)[i] = s[i + 1]
  BY HeadTailProperties
<1>2. Len(s) \in Nat \ {0} /\ DOMAIN s = 1..Len(s) /\ DOMAIN Tail(s) = 1..Len(Tail(s)) /\ Head(s) = s[1]
  BY <1>1
<1>3. \A i \in 1..Len(s) : i = 1 \/ (i - 1 \in 1..Len(Tail(s)) /\ s[i] = Tail(s)[i - 1])
  BY <1>1, <1>2
<1>4. \A i \in 1..Len(Tail(s)) : i + 1 \in 1..Len(s) /\ Tail(s)[i] = s[i + 1]
  BY <1>1, <1>2
<1>5. Range(s) = {s[i] : i \in 1..Len(s)} /\ Range(Tail(s)) = {Tail(s)[i] : i \in 1..Len(Tail(s))}
  BY <1>2 DEF Range
<1>6. Head(s) \in Range(s)
  BY <1>2, <1>5
<1>7. Range(s) \subseteq Range(Tail(s)) \cup {Head(s)}
  <2> SUFFICES ASSUME NEW i \in 1..Len(s) PROVE s[i] \in Range(Tail(s)) \cup {Head(s)}
    BY <1>5
  <2> QED BY <1>2, <1>3, <1>5
<1>8. Range(Tail(s)) \subseteq Range(s)
  <2> SUFFICES ASSUME NEW i \in 1..Len(Tail(s)) PROVE Tail(s)[i] \in Range(s)
    BY <1>5
  <2> QED BY <1>4, <1>5
<1> QED BY <1>1, <1>6, <1>7, <1>8

LEMMA RangeOfEmpty == Range(<< >>) = {}
BY DEF Range

LEMMA RangeOfAppend ==
    ASSUME NEW S, NEW s \in Seq(S), NEW e \in S
    PROVE  Append(s, e) \in Seq(S) /\ Range(Append(s, e)) = Range(s) \cup {e}
<1>1. /\ Append(s, e) \in Seq(S) /\ Len(Append(s, e)) = Len(s) + 1
      /\ \A i \in 1..Len(s) : Append(s, e)[i] = s[i]
      /\ Append(s, e)[Len(s) + 1] = e
  BY AppendProperties
<1>2. DOMAIN s = 1..Len(s) /\ DOMAIN Append(s, e) = 1..(Len(s) + 1) /\ Len(s) \in Nat
  BY <1>1
<1>3. 1..(Len(s) + 1) = 1..Len(s) \cup {Len(s) + 1}
  BY <1>2
<1> QED BY <1>1, <1>2, <1>3 DEF Range

-----------------------------------------------------------------------------
LEMMA NoteInitInv == NoteInit => NoteInv
<1> SUFFICES ASSUME NoteInit PROVE NoteInv
  OBVIOUS
<1>1. NoteTypeInv
  BY DEF NoteInit, NoteTypeInv
<1>2. BroadcastInv
  BY WorkIsNotIdle DEF NoteInit, BroadcastInv
<1>3. UnlistedInv /\ CatchUpInv /\ LoggedAboveMinimum
  BY DEF NoteInit, UnlistedInv, CatchUpInv, LoggedAboveMinimum, Range, Kinds
<1> QED BY <1>1, <1>2, <1>3 DEF NoteInv

LEMMA StartBroadcastInv ==
    ASSUME NoteInv, NEW t \in Notifiers, StartBroadcast(t)
    PROVE  NoteInv'
<1> USE DEF NoteInv
<1>1. todo[t] \in Work /\ todo'[t] \in Work /\ todo'[t].left = observers /\ todo'[t].at = "broadcast"
      /\ todo'[t].note = todo[t].note /\ todo'[t].lowest = todo[t].lowest
      /\ \A u \in Notifiers \ {t} : todo'[u] = todo[u]
  BY WorkIsNotIdle DEF StartBroadcast, NoteTypeInv, Work
<1>2. UNCHANGED <<registry, minLevel, observers, view, heard>>
  BY DEF StartBroadcast
<1>3. NoteTypeInv'
  BY <1>1, <1>2 DEF StartBroadcast, NoteTypeInv
<1>4. BroadcastInv' /\ UnlistedInv' /\ LoggedAboveMinimum'
  BY <1>1, <1>2 DEF BroadcastInv, UnlistedInv, LoggedAboveMinimum
<1>5. \A u \in Notifiers, o \in Range(observers), kind \in Kinds : Coming(u, o, kind) => Coming(u, o, kind)'
  BY <1>1, <1>2 DEF Coming
<1>6. CatchUpInv'
  BY <1>2, <1>5 DEF CatchUpInv, Kinds
<1> QED BY <1>3, <1>4, <1>6

LEMMA DeliverInv ==
    ASSUME NoteInv, NEW t \in Notifiers, Deliver(t)
    PROVE  NoteInv'
<1> USE DEF NoteInv
<1> DEFINE note == todo[t].note
           o == Head(todo[t].left)
<1>1. todo[t] \in Work /\ todo[t].left \in Seq(Observers) /\ todo[t].left # << >> /\ note \in Note
      /\ todo[t].at = "broadcast"
  BY WorkIsNotIdle DEF Deliver, Broadcasting, NoteTypeInv, Work
<1>2. /\ o \in Observers /\ Tail(todo[t].left) \in Seq(Observers) /\ o \in Range(todo[t].left)
      /\ Range(todo[t].left) \subseteq Range(Tail(todo[t].left)) \cup {o}
      /\ Range(Tail(todo[t].left)) \subseteq Range(todo[t].left)
  BY <1>1, RangeOfTail
<1>3. o \in Range(observers) /\ note.kind # "resources"
  BY <1>1, <1>2 DEF BroadcastInv
<1>4. todo'[t] \in Work /\ todo'[t].left = Tail(todo[t].left) /\ todo'[t].at = "broadcast"
      /\ todo'[t].note = todo[t].note /\ todo'[t].lowest = todo[t].lowest
      /\ \A u \in Notifiers \ {t} : todo'[u] = todo[u]
  BY <1>1, <1>2 DEF Deliver, Broadcasting, NoteTypeInv, Work
<1>5. UNCHANGED <<registry, minLevel, observers>>
  BY DEF Deliver
<1>6. todo' \in [Notifiers -> Work \cup {Idle}]
  BY <1>4 DEF Deliver, NoteTypeInv
<1>7. BroadcastInv'
  BY <1>1, <1>2, <1>4, <1>5 DEF BroadcastInv
\* Nobody else's notice goes, and this one only for the observer it goes to.
<1>8. \A u \in Notifiers, p \in Range(observers), kind \in Kinds :
         Coming(u, p, kind) => Coming(u, p, kind)' \/ (u = t /\ p = o /\ kind = note.kind)
  BY <1>1, <1>2, <1>4 DEF Coming
<1>9. CASE note.kind = "message"
  <2>1. view' = view /\ heard' = heard \cup {[level |-> note.level, lowest |-> todo[t].lowest]}
    BY <1>9 DEF Deliver
  <2>2. NoteTypeInv' /\ UnlistedInv'
    BY <1>5, <1>6, <2>1 DEF NoteTypeInv, UnlistedInv
  <2>3. LoggedAboveMinimum'
    BY <1>1, <1>9, <2>1 DEF BroadcastInv, LoggedAboveMinimum
  <2>4. CatchUpInv'
    BY <1>5, <1>8, <1>9, <2>1 DEF CatchUpInv, Kinds
  <2> QED BY <1>7, <2>2, <2>3, <2>4
<1>10. CASE note.kind # "message"
  <2>1. note.kind \in Kinds
    BY <1>1, <1>10 DEF Note
  <2>2. view' = [view EXCEPT ![o][note.kind] = registry[note.kind]] /\ heard' = heard
    BY <1>10 DEF Deliver
  <2>3. /\ view' \in [Observers -> [Kinds -> Nat]]
        /\ \A p \in Observers, k \in Kinds :
             view'[p][k] = IF p = o /\ k = note.kind THEN registry[k] ELSE view[p][k]
    BY <1>2, <2>1, <2>2 DEF NoteTypeInv
  <2>4. NoteTypeInv' /\ LoggedAboveMinimum'
    BY <1>5, <1>6, <2>2, <2>3 DEF NoteTypeInv, LoggedAboveMinimum
  \* A view that is complete now was complete, for resources were listed.
  <2>5. \A p \in Observers : view'[p]["resources"] = view[p]["resources"]
    BY <1>3, <2>3 DEF Kinds
  <2>6. \A p \in Observers, k \in Kinds : view'[p][k] = 0 => view[p][k] = 0
    BY <2>3, <1>2, <2>1 DEF NoteTypeInv
  <2>7. \A p \in Observers : (\E k \in Kinds : view[p][k] = 0) => view'[p]["resources"] = 0
    BY <2>5 DEF UnlistedInv
  <2>8. UnlistedInv'
    BY <1>3, <1>5, <2>3, <2>6, <2>7 DEF UnlistedInv
  <2>9. Range(observers) \subseteq Observers
    BY RangeOfSeq DEF NoteTypeInv
  <2>10. CatchUpInv'
    BY <1>5, <1>8, <2>3, <2>7, <2>9 DEF CatchUpInv, Kinds
  <2> QED BY <1>7, <2>4, <2>8, <2>10
<1> QED BY <1>9, <1>10

LEMMA EndBroadcastInv ==
    ASSUME NoteInv, NEW t \in Notifiers, EndBroadcast(t)
    PROVE  NoteInv'
<1> USE DEF NoteInv
<1>1. todo[t] \in Work /\ todo[t].at = "broadcast" /\ todo[t].left = << >> /\ todo'[t] = Idle
      /\ \A u \in Notifiers \ {t} : todo'[u] = todo[u]
  BY WorkIsNotIdle DEF EndBroadcast, Broadcasting, NoteTypeInv
<1>2. UNCHANGED <<registry, minLevel, observers, view, heard>>
  BY DEF EndBroadcast
<1>3. NoteTypeInv'
  BY <1>1, <1>2 DEF EndBroadcast, NoteTypeInv
<1>4. BroadcastInv' /\ UnlistedInv' /\ LoggedAboveMinimum'
  BY <1>1, <1>2, WorkIsNotIdle DEF BroadcastInv, UnlistedInv, LoggedAboveMinimum
<1>5. \A u \in Notifiers, o \in Range(observers), kind \in Kinds : Coming(u, o, kind) => Coming(u, o, kind)'
  BY <1>1, <1>2 DEF Coming, Range
<1>6. CatchUpInv'
  BY <1>2, <1>5 DEF CatchUpInv, Kinds
<1> QED BY <1>3, <1>4, <1>6

LEMMA RegisterInv ==
    ASSUME NoteInv, NEW t \in Notifiers, NEW kind \in Kinds, Register(t, kind)
    PROVE  NoteInv'
<1> USE DEF NoteInv
<1>1. Changed(kind) \in Work /\ Changed(kind).at = "notify" /\ Changed(kind).note.kind = kind
      /\ Changed(kind).left = << >>
  BY EmptySeq DEF Changed, Work, Note
<1>2. /\ todo[t] \notin Work
      /\ todo'[t] = IF kind = "resources" THEN Idle ELSE Changed(kind)
      /\ \A u \in Notifiers \ {t} : todo'[u] = todo[u]
  BY WorkIsNotIdle DEF Register, NoteTypeInv
<1>3. /\ UNCHANGED <<minLevel, observers, view, heard>>
      /\ registry' \in [Kinds -> Nat \ {0}]
      /\ \A k \in Kinds \ {kind} : registry'[k] = registry[k]
  BY DEF Register, NoteTypeInv
<1>4. NoteTypeInv'
  BY <1>1, <1>3 DEF Register, NoteTypeInv
<1>5. BroadcastInv'
  <2> SUFFICES ASSUME NEW u \in Notifiers, todo'[u] \in Work
               PROVE  /\ Range(todo'[u].left) \subseteq Range(observers)
                      /\ todo'[u].note.kind # "resources"
                      /\ todo'[u].note.kind = "message" => todo'[u].note.level >= todo'[u].lowest
    BY <1>3 DEF BroadcastInv
  <2>1. CASE u = t
    <3>1. todo'[u] = Changed(kind) /\ kind # "resources" /\ kind # "message"
      BY <1>2, <2>1, WorkIsNotIdle DEF Kinds
    <3> QED BY <1>1, <3>1, RangeOfEmpty
  <2>2. CASE u # t
    BY <1>2, <2>2 DEF BroadcastInv
  <2> QED BY <2>1, <2>2
<1>6. UnlistedInv' /\ LoggedAboveMinimum'
  BY <1>3 DEF UnlistedInv, LoggedAboveMinimum
<1>7. \A u \in Notifiers, o \in Range(observers), k \in Kinds : Coming(u, o, k) => Coming(u, o, k)'
  BY <1>2, <1>3 DEF Coming
<1>8. kind # "resources" => \A o \in Range(observers) : Coming(t, o, kind)'
  BY <1>1, <1>2 DEF Coming
<1>9. CatchUpInv'
  BY <1>3, <1>7, <1>8 DEF CatchUpInv, Kinds
<1> QED BY <1>4, <1>5, <1>6, <1>9

LEMMA LogInv ==
    ASSUME NoteInv, NEW t \in Notifiers, NEW level \in LogLevels, Log(t, level)
    PROVE  NoteInv'
<1> USE DEF NoteInv
<1> DEFINE w == [at |-> "notify", note |-> [kind |-> "message", level |-> level],
                 left |-> << >>, lowest |-> minLevel]
<1>1. level \in Nat /\ minLevel \in Nat
  BY LevelsAreNumbers DEF NoteTypeInv
<1>2. w \in Work
  BY <1>1, EmptySeq DEF Work, Note
<1>3. /\ todo[t] \notin Work
      /\ todo'[t] = IF level >= minLevel THEN w ELSE Idle
      /\ \A u \in Notifiers \ {t} : todo'[u] = todo[u]
  BY WorkIsNotIdle DEF Log, NoteTypeInv
<1>4. UNCHANGED <<registry, minLevel, observers, view, heard>>
  BY DEF Log
<1>5. NoteTypeInv'
  BY <1>2, <1>4 DEF Log, NoteTypeInv
<1>6. BroadcastInv'
  <2> SUFFICES ASSUME NEW u \in Notifiers, todo'[u] \in Work
               PROVE  /\ Range(todo'[u].left) \subseteq Range(observers)
                      /\ todo'[u].note.kind # "resources"
                      /\ todo'[u].note.kind = "message" => todo'[u].note.level >= todo'[u].lowest
    BY <1>4 DEF BroadcastInv
  <2>1. CASE u = t
    <3>1. todo'[u] = w /\ level >= minLevel
      BY <1>3, <2>1, WorkIsNotIdle
    <3> QED BY <3>1, RangeOfEmpty
  <2>2. CASE u # t
    BY <1>3, <2>2 DEF BroadcastInv
  <2> QED BY <2>1, <2>2
<1>7. UnlistedInv' /\ LoggedAboveMinimum'
  BY <1>4 DEF UnlistedInv, LoggedAboveMinimum
<1>8. \A u \in Notifiers, o \in Range(observers), k \in Kinds : Coming(u, o, k) => Coming(u, o, k)'
  BY <1>3, <1>4 DEF Coming
<1>9. CatchUpInv'
  BY <1>4, <1>8 DEF CatchUpInv, Kinds
<1> QED BY <1>5, <1>6, <1>7, <1>9

LEMMA SetMinLogLevelInv ==
    ASSUME NoteInv, NEW level \in LogLevels, SetMinLogLevel(level)
    PROVE  NoteInv'
<1> USE DEF NoteInv
<1>1. level \in Nat
  BY LevelsAreNumbers
<1>2. \A t \in Notifiers :
        /\ todo[t] \notin Work => todo'[t] = todo[t]
        /\ todo[t] \in Work =>
             /\ todo'[t] \in Work /\ todo'[t].at = todo[t].at
             /\ todo'[t].note = todo[t].note /\ todo'[t].left = todo[t].left
             /\ todo'[t].lowest \in {todo[t].lowest, level} /\ todo'[t].lowest <= todo[t].lowest
  <2> SUFFICES ASSUME NEW t \in Notifiers
               PROVE  /\ todo[t] \notin Work => todo'[t] = todo[t]
                      /\ todo[t] \in Work =>
                           /\ todo'[t] \in Work /\ todo'[t].at = todo[t].at
                           /\ todo'[t].note = todo[t].note /\ todo'[t].left = todo[t].left
                           /\ todo'[t].lowest \in {todo[t].lowest, level}
                           /\ todo'[t].lowest <= todo[t].lowest
    OBVIOUS
  <2>1. todo'[t] = IF todo[t].at # "idle" /\ todo[t].note.kind = "message" /\ level < todo[t].lowest
                     THEN [todo[t] EXCEPT !.lowest = level] ELSE todo[t]
    BY DEF SetMinLogLevel
  <2>2. CASE todo[t] \notin Work
    BY <2>1, <2>2, WorkIsNotIdle DEF NoteTypeInv
  <2>3. CASE todo[t] \in Work /\ todo'[t] = todo[t]
    BY <2>3 DEF Work
  <2>4. CASE todo[t] \in Work /\ level < todo[t].lowest /\ todo'[t] = [todo[t] EXCEPT !.lowest = level]
    BY <1>1, <2>4 DEF Work
  <2> QED BY <2>1, <2>2, <2>3, <2>4
<1>3. UNCHANGED <<registry, observers, view, heard>> /\ minLevel' = level
  BY DEF SetMinLogLevel
<1>4. todo' \in [Notifiers -> Work \cup {Idle}]
  BY <1>2 DEF SetMinLogLevel, NoteTypeInv
<1>5. NoteTypeInv'
  BY <1>3, <1>4 DEF NoteTypeInv
<1>6. BroadcastInv'
  <2> SUFFICES ASSUME NEW u \in Notifiers, todo'[u] \in Work
               PROVE  /\ Range(todo'[u].left) \subseteq Range(observers)
                      /\ todo'[u].note.kind # "resources"
                      /\ todo'[u].note.kind = "message" => todo'[u].note.level >= todo'[u].lowest
    BY <1>3 DEF BroadcastInv
  <2>1. todo[u] \in Work
    BY <1>2
  <2>2. todo[u].lowest \in Nat /\ todo[u].note.level \in Nat /\ todo'[u].lowest \in Nat
    BY <1>1, <1>2, <2>1 DEF Work, Note
  <2> QED BY <1>2, <2>1, <2>2 DEF BroadcastInv
<1>7. UnlistedInv' /\ LoggedAboveMinimum'
  BY <1>3 DEF UnlistedInv, LoggedAboveMinimum
<1>8. \A u \in Notifiers, o \in Range(observers), k \in Kinds : Coming(u, o, k) => Coming(u, o, k)'
  BY <1>2, <1>3 DEF Coming
<1>9. CatchUpInv'
  BY <1>3, <1>8 DEF CatchUpInv, Kinds
<1> QED BY <1>5, <1>6, <1>7, <1>9

LEMMA ObserverInv ==
    ASSUME NoteInv, NEW o \in Observers, Subscribe(o) \/ ListAll(o)
    PROVE  NoteInv'
<1> USE DEF NoteInv
<1>1. CASE Subscribe(o)
  <2>1. observers' \in Seq(Observers) /\ Range(observers') = Range(observers) \cup {o}
    BY <1>1, RangeOfAppend DEF Subscribe, NoteTypeInv
  <2>2. UNCHANGED <<registry, minLevel, todo, view, heard>>
    BY <1>1 DEF Subscribe
  <2>3. NoteTypeInv' /\ BroadcastInv' /\ UnlistedInv' /\ LoggedAboveMinimum'
    BY <2>1, <2>2 DEF NoteTypeInv, BroadcastInv, UnlistedInv, LoggedAboveMinimum
  <2>4. \E k \in Kinds : view[o][k] = 0
    BY <1>1 DEF Subscribe, UnlistedInv, Kinds
  <2>5. CatchUpInv'
    BY <2>1, <2>2, <2>4 DEF CatchUpInv, Coming
  <2> QED BY <2>3, <2>5
<1>2. CASE ListAll(o)
  <2>1. UNCHANGED <<registry, minLevel, observers, todo, heard>>
    BY <1>2 DEF ListAll
  <2>2. /\ view' \in [Observers -> [Kinds -> Nat]]
        /\ view'[o] = registry /\ \A p \in Observers \ {o} : view'[p] = view[p]
    BY <1>2 DEF ListAll, NoteTypeInv
  <2>3. \A k \in Kinds : registry[k] # 0
    BY DEF NoteTypeInv
  <2>4. NoteTypeInv' /\ BroadcastInv' /\ LoggedAboveMinimum'
    BY <2>1, <2>2 DEF NoteTypeInv, BroadcastInv, LoggedAboveMinimum
  <2>5. UnlistedInv'
    BY <1>2, <2>1, <2>2, <2>3 DEF UnlistedInv, ListAll
  <2>6. Range(observers) \subseteq Observers
    BY RangeOfSeq DEF NoteTypeInv
  <2>7. CatchUpInv'
    BY <2>1, <2>2, <2>6 DEF CatchUpInv, Coming
  <2> QED BY <2>4, <2>5, <2>7
<1> QED BY <1>1, <1>2

LEMMA NextNoteInv == NoteInv /\ [NoteNext]_noteVars => NoteInv'
<1> SUFFICES ASSUME NoteInv, [NoteNext]_noteVars PROVE NoteInv'
  OBVIOUS
<1>1. ASSUME NEW t \in Notifiers, StartBroadcast(t) PROVE NoteInv'
  BY <1>1, StartBroadcastInv
<1>2. ASSUME NEW t \in Notifiers, Deliver(t) PROVE NoteInv'
  BY <1>2, DeliverInv
<1>3. ASSUME NEW t \in Notifiers, EndBroadcast(t) PROVE NoteInv'
  BY <1>3, EndBroadcastInv
<1>4. ASSUME NEW t \in Notifiers, NEW kind \in Kinds, Register(t, kind) PROVE NoteInv'
  BY <1>4, RegisterInv
<1>5. ASSUME NEW t \in Notifiers, NEW level \in LogLevels, Log(t, level) PROVE NoteInv'
  BY <1>5, LogInv
<1>6. ASSUME NEW o \in Observers, Subscribe(o) \/ ListAll(o) PROVE NoteInv'
  BY <1>6, ObserverInv
<1>7. ASSUME NEW level \in LogLevels, SetMinLogLevel(level) PROVE NoteInv'
  BY <1>7, SetMinLogLevelInv
<1>8. CASE UNCHANGED noteVars
  BY <1>8 DEF noteVars, NoteInv, NoteTypeInv, BroadcastInv, UnlistedInv, CatchUpInv, Coming,
              LoggedAboveMinimum
<1> QED BY <1>1, <1>2, <1>3, <1>4, <1>5, <1>6, <1>7, <1>8 DEF NoteNext

LEMMA CatchUpIsEnough == NoteInv => ObserversCatchUp
BY WorkIsNotIdle DEF NoteInv, NoteTypeInv, CatchUpInv, Coming, Work, ViewsCatchUp, ObserversCatchUp

\* Any number of registrations, subscriptions and broadcasts leaves no observer with an old
\* list that nobody will tell it of, and no message is delivered below the lowest minimum
\* there was since it was logged (server.rs:79-97, notifications.rs:71-135).
THEOREM ObserversLearn == NoteSpec => []ObserversCatchUp
<1>1. NoteInit => NoteInv
  BY NoteInitInv
<1>2. NoteInv /\ [NoteNext]_noteVars => NoteInv'
  BY NextNoteInv
<1>3. NoteInv => ObserversCatchUp
  BY CatchUpIsEnough
<1> QED BY <1>1, <1>2, <1>3, PTL DEF NoteSpec

-----------------------------------------------------------------------------
(* The answers of a request                                                *)

\* A server with what its answers depend on.
IsServer(s) ==
    /\ s = [enabled |-> s.enabled, engines |-> s.engines, pairs |-> s.pairs, tasks |-> s.tasks,
            level |-> s.level]
    /\ s.engines \subseteq {"rag", "agent"}

\* What no answer changes.
Alike(s, r) == s.enabled = r.enabled /\ s.engines = r.engines

\* h[i] is the server that got request i, and the last of h the one there is.
Answered(h) ==
    /\ h[Len(exchanges) + 1] = server
    /\ \A i \in 1..(Len(exchanges) + 1) : IsServer(h[i]) /\ Alike(h[i], server)
    /\ \A i \in 1..Len(exchanges) :
         /\ exchanges[i].request.params = {} \/ \E p : exchanges[i].request.params = {p}
         /\ \E o \in Answers(h[i], exchanges[i].request.method, exchanges[i].request.params) :
              o.answer = exchanges[i].answer /\ o.server = h[i + 1]

\* What the answers of a tool have in common: only a tool that there is none of is unknown,
\* and none misses an argument if it has those of its schema.
Outcome(o, s, tool, args) ==
    /\ IsServer(o.server) /\ Alike(o.server, s)
    /\ o.answer.why # "disabled"
    /\ (o.answer.why = "unknown") = (tool \notin Tools)
    /\ tool \in Tools /\ Has(args, Schema(tool).required) => o.answer.why # "argument"

LEMMA KeptIs == \A s, a : \A o \in Kept(s, a) : o.server = s /\ o.answer = a
BY DEF Kept

LEMMA OrFailsIs ==
    ASSUME NEW s, NEW r, NEW a, NEW o \in OrFails(s, Kept(r, a))
    PROVE  (o.server = r /\ o.answer = a) \/ (o.server = s /\ o.answer = ToolFailed("store"))
BY KeptIs DEF OrFails

LEMMA Answers1 ==
    /\ \A b : Success(b).code = "OK" /\ Success(b).why = "none" /\ Success(b).body = b
    /\ \A w : ToolFailed(w).code # "OK" /\ ToolFailed(w).why = w
BY DEF Success, ToolFailed, Failure

LEMMA ToolIs ==
    ASSUME NEW tool
    PROVE  tool \in Tools <=> \/ tool = "flash_get" \/ tool = "flash_put" \/ tool = "flash_delete"
                              \/ tool = "flash_scan" \/ tool = "flash_stats"
                              \/ tool = "flash_rag_query" \/ tool = "flash_agent_run"
BY DEF Tools

\* What a get finds, and what the server is after a put, a delete and a submission.
Lookup(s, args) == {s.pairs[k] : k \in {args["key"]} \intersect DOMAIN s.pairs}
AfterPut(s, args) ==
    [s EXCEPT !.pairs = [k \in DOMAIN @ \union {args["key"]} |->
                           IF k = args["key"] THEN args["value"] ELSE @[k]]]
AfterDelete(s, args) ==
    [s EXCEPT !.pairs = [k \in DOMAIN @ \ {args["key"]} |-> @[k]]]
AfterSubmit(s, args) == [s EXCEPT !.tasks = @ \union {args["task_id"]}]

LEMMA AfterIs ==
    ASSUME NEW s, IsServer(s), NEW args,
           NEW r, r = s \/ r = AfterPut(s, args) \/ r = AfterDelete(s, args) \/ r = AfterSubmit(s, args)
    PROVE  IsServer(r) /\ Alike(r, s)
<1>1. \A f : LET x == [s EXCEPT !.pairs = f] IN IsServer(x) /\ Alike(x, s)
  BY DEF IsServer, Alike
<1>2. \A f : LET x == [s EXCEPT !.tasks = f] IN IsServer(x) /\ Alike(x, s)
  BY DEF IsServer, Alike
<1>3. IsServer(s) /\ Alike(s, s)
  BY DEF Alike
<1> QED BY <1>1, <1>2, <1>3 DEF AfterPut, AfterDelete, AfterSubmit

\* What a call can be answered with: an argument is missing, a failure, or success.
LEMMA GetIs ==
    ASSUME NEW s, NEW args, NEW o \in GetTool(s, args)
    PROVE  /\ o.server = s
           /\ \/ ~ Has(args, {"key"}) /\ o.answer = ToolFailed("argument")
              \/ o.answer = ToolFailed("store")
              \/ o.answer = Success(Lookup(s, args))
<1>1. CASE Has(args, {"key"})
  BY <1>1, OrFailsIs DEF GetTool, Lookup
<1>2. CASE ~ Has(args, {"key"})
  BY <1>2, KeptIs DEF GetTool
<1> QED BY <1>1, <1>2

LEMMA PutIs ==
    ASSUME NEW s, NEW args, NEW o \in PutTool(s, args)
    PROVE  \/ /\ ~ Has(args, {"key", "value"}) /\ o.answer = ToolFailed("argument") /\ o.server = s
           \/ o.answer = ToolFailed("store") /\ o.server = s
           \/ o.answer = Success({}) /\ o.server = AfterPut(s, args)
<1>1. CASE Has(args, {"key", "value"})
  <2>1. o \in OrFails(s, Kept(AfterPut(s, args), Success({})))
    BY <1>1 DEF PutTool, AfterPut
  <2> QED BY <2>1, OrFailsIs
<1>2. CASE ~ Has(args, {"key", "value"})
  BY <1>2, KeptIs DEF PutTool
<1> QED BY <1>1, <1>2

LEMMA DeleteIs ==
    ASSUME NEW s, NEW args, NEW o \in DeleteTool(s, args)
    PROVE  \/ /\ ~ Has(args, {"key"}) /\ o.answer = ToolFailed("argument") /\ o.server = s
           \/ o.answer = ToolFailed("store") /\ o.server = s
           \/ o.answer = Success({}) /\ o.server = AfterDelete(s, args)
<1>1. CASE Has(args, {"key"})
  <2>1. o \in OrFails(s, Kept(AfterDelete(s, args), Success({})))
    BY <1>1 DEF DeleteTool, AfterDelete
  <2> QED BY <2>1, OrFailsIs
<1>2. CASE ~ Has(args, {"key"})
  BY <1>2, KeptIs DEF DeleteTool
<1> QED BY <1>1, <1>2

LEMMA ScanIs ==
    ASSUME NEW s, NEW args, NEW o \in ScanTool(s, args)
    PROVE  o.server = s /\ (o.answer = ToolFailed("store") \/ \E b : o.answer = Success(b))
BY OrFailsIs DEF ScanTool

LEMMA RagQueryIs ==
    ASSUME NEW s, NEW args, NEW o \in RagQueryTool(s, args)
    PROVE  /\ o.server = s
           /\ \/ ~ Has(args, {"query"}) /\ o.answer = ToolFailed("argument")
              \/ o.answer = Success({})
BY KeptIs DEF RagQueryTool

LEMMA AgentRunIs ==
    ASSUME NEW s, NEW args, NEW o \in AgentRunTool(s, args)
    PROVE  /\ o.server = s \/ o.server = AfterSubmit(s, args)
           /\ \/ ~ Has(args, {"task_id", "prompt"}) /\ o.answer = ToolFailed("argument")
              \/ \E b : o.answer = Success(b)
              \/ o.answer = ToolFailed("agent")
<1>1. CASE ~ Has(args, {"task_id", "prompt"})
  BY <1>1, KeptIs DEF AgentRunTool
<1>2. CASE Has(args, {"task_id", "prompt"}) /\ "agent" \notin s.engines
  BY <1>2, KeptIs DEF AgentRunTool
<1>3. CASE Has(args, {"task_id", "prompt"}) /\ "agent" \in s.engines
  <2> DEFINE b == {args["task_id"]}
  <2>1. o \in Kept(AfterSubmit(s, args), Success(b)) \union Kept(AfterSubmit(s, args), ToolFailed("agent"))
    BY <1>3 DEF AgentRunTool, AfterSubmit
  <2> HIDE DEF b
  <2> QED BY <2>1, KeptIs
<1> QED BY <1>1, <1>2, <1>3

LEMMA CallIs ==
    ASSUME NEW s, IsServer(s), NEW tool, NEW args, NEW o \in Call(s, tool, args)
    PROVE  Outcome(o, s, tool, args)
<1>1. ASSUME NEW names, Schema(tool).required = names, tool \in Tools,
             \/ o.server = s \/ o.server = AfterPut(s, args) \/ o.server = AfterDelete(s, args)
             \/ o.server = AfterSubmit(s, args),
             \/ ~ Has(args, names) /\ o.answer = ToolFailed("argument")
             \/ o.answer = ToolFailed("store") \/ o.answer = ToolFailed("agent")
             \/ \E b : o.answer = Success(b)
      PROVE  Outcome(o, s, tool, args)
  <2>1. IsServer(o.server) /\ Alike(o.server, s)
    BY <1>1, AfterIs
  <2>2. \/ ~ Has(args, names) /\ o.answer.why = "argument"
        \/ o.answer.why = "store" \/ o.answer.why = "agent" \/ o.answer.why = "none"
    BY <1>1, Answers1
  <2> QED BY <1>1, <2>1, <2>2 DEF Outcome
<1>2. CASE tool = "flash_get"
  <2>1. o \in GetTool(s, args)
    BY <1>2 DEF Call
  <2>2. Schema(tool).required = {"key"} /\ tool \in Tools
    BY <1>2 DEF Schema, Tools
  <2> QED BY <1>1, <2>1, <2>2, GetIs
<1>3. CASE tool = "flash_put"
  <2>1. o \in PutTool(s, args)
    BY <1>3 DEF Call
  <2>2. Schema(tool).required = {"key", "value"} /\ tool \in Tools
    BY <1>3 DEF Schema, Tools
  <2> QED BY <1>1, <2>1, <2>2, PutIs
<1>4. CASE tool = "flash_delete"
  <2>1. o \in DeleteTool(s, args)
    BY <1>4 DEF Call
  <2>2. Schema(tool).required = {"key"} /\ tool \in Tools
    BY <1>4 DEF Schema, Tools
  <2> QED BY <1>1, <2>1, <2>2, DeleteIs
<1>5. CASE tool = "flash_scan" \/ tool = "flash_stats"
  <2>1. o \in ScanTool(s, args) \/ o \in Kept(s, Success({}))
    BY <1>5 DEF Call
  <2>2. o.server = s /\ (o.answer = ToolFailed("store") \/ \E b : o.answer = Success(b))
    BY <2>1, ScanIs, KeptIs
  <2>3. tool \in Tools
    BY <1>5 DEF Tools
  <2> QED BY <1>1, <2>2, <2>3
<1>6. CASE tool = "flash_rag_query"
  <2>1. o \in RagQueryTool(s, args)
    BY <1>6 DEF Call
  <2>2. Schema(tool).required = {"query"} /\ tool \in Tools
    BY <1>6 DEF Schema, Tools
  <2> QED BY <1>1, <2>1, <2>2, RagQueryIs
<1>7. CASE tool = "flash_agent_run"
  <2>1. o \in AgentRunTool(s, args)
    BY <1>7 DEF Call
  <2>2. Schema(tool).required = {"task_id", "prompt"} /\ tool \in Tools
    BY <1>7 DEF Schema, Tools
  <2> QED BY <1>1, <2>1, <2>2, AgentRunIs
<1>8. CASE tool \notin Tools
  <2>1. o \in Kept(s, ToolFailed("unknown"))
    BY <1>8, ToolIs DEF Call
  <2>2. o.server = s /\ o.answer.why = "unknown"
    BY <2>1, KeptIs, Answers1
  <2>3. IsServer(o.server) /\ Alike(o.server, s)
    BY <2>2 DEF Alike
  <2> QED BY <1>8, <2>2, <2>3 DEF Outcome
<1> QED BY <1>2, <1>3, <1>4, <1>5, <1>6, <1>7, <1>8, ToolIs

\* The parameters of a request are one record, or none.
ParamsFit(params) == params = {} \/ \E p : params = {p}

LEMMA RequestsFit == \A req \in Requests : ParamsFit(req.params)
<1>1. \A m : ParamsFit([method |-> m, params |-> {}].params)
  BY DEF ParamsFit
<1>2. \A m, p : ParamsFit([method |-> m, params |-> {p}].params)
  BY DEF ParamsFit
<1> SUFFICES ASSUME NEW req \in Requests PROVE ParamsFit(req.params)
  OBVIOUS
<1> DEFINE Calls == CallParams(Tools, Schema)
           Gets == CallParams(Prompts, PromptDefinition)
           Uris == (UNION {ListResources(p) : p \in {"storage", "rag", "agent"}}) \union {"other"}
<1>3. \/ \E m : req = [method |-> m, params |-> {}]
      \/ req = [method |-> "initialize", params |-> {{}}]
      \/ req \in {[method |-> "tools/call", params |-> {p}] : p \in Calls}
      \/ req \in {[method |-> "prompts/get", params |-> {p}] : p \in Gets}
      \/ req \in {[method |-> "resources/read", params |-> {[uri |-> u]}] : u \in Uris}
      \/ req \in {[method |-> "logging/setLevel", params |-> {[level |-> l]}] : l \in {1, 8, 9}}
  BY DEF Requests
<1> HIDE DEF Calls, Gets, Uris
<1>4. \E m : req = [method |-> m, params |-> {}] \/ \E p : req = [method |-> m, params |-> {p}]
  BY <1>3
<1> QED BY <1>1, <1>2, <1>4

\* What a request whose capability is enabled is answered with.
LEMMA AnsweredByHandler ==
    ASSUME NEW s, NEW method, NEW params, ParamsFit(params), CapabilityOf(method) \subseteq s.enabled,
           NEW o \in Answers(s, method, params)
    PROVE  \/ method = "tools/list" /\ o \in Kept(s, Success(Tools))
           \/ method = "resources/list" /\ o \in Kept(s, Success(Listed(s)))
           \/ method = "prompts/list" /\ o \in Kept(s, Success(Prompts))
           \/ /\ params = {} \/ method \notin Parsing
              /\ method \notin {"tools/list", "resources/list", "prompts/list"}
              /\ \E a \in {Success({}), InvalidParams, Failure("METHOD_NOT_FOUND", "method")} :
                    (method \in Parsing => a # Success({})) /\ o \in Kept(s, a)
           \/ \E p : params = {p} /\
                \/ method = "initialize" /\ o \in HandleInitialize(s, p)
                \/ method = "tools/call" /\ o \in HandleToolsCall(s, p)
                \/ method = "resources/read" /\ o \in HandleResourcesRead(s, p)
                \/ method = "prompts/get" /\ o \in HandlePromptsGet(s, p)
                \/ method = "logging/setLevel" /\ o \in HandleSetLevel(s, p)
<1>1. CASE method \in {"tools/list", "resources/list", "prompts/list"}
  BY <1>1 DEF Answers, HandleToolsList, HandleResourcesList, HandlePromptsList, Parsing
<1>2. CASE method \in Parsing /\ params = {}
  <2>1. InvalidParams # Success({})
    BY DEF InvalidParams, Failure, Success
  <2>2. o \in Kept(s, InvalidParams)
    BY <1>2 DEF Answers, Parsing
  <2>3. method \notin {"tools/list", "resources/list", "prompts/list"}
    BY <1>2 DEF Parsing
  <2> QED BY <1>2, <2>1, <2>2, <2>3
<1>3. CASE method \in Parsing /\ params # {}
  <2>1. PICK p : params = {p}
    BY <1>3 DEF ParamsFit
  <2>2. o \in CASE method = "initialize" -> HandleInitialize(s, p)
                [] method = "tools/call" -> HandleToolsCall(s, p)
                [] method = "resources/read" -> HandleResourcesRead(s, p)
                [] method = "prompts/get" -> HandlePromptsGet(s, p)
                [] method = "logging/setLevel" -> HandleSetLevel(s, p)
    BY <1>3, <2>1 DEF Answers, Parsing
  <2> QED BY <1>3, <2>1, <2>2 DEF Parsing
<1>4. CASE method \notin Parsing /\ method \notin {"tools/list", "resources/list", "prompts/list"}
  <2>1. \E a \in {Success({}), Failure("METHOD_NOT_FOUND", "method")} : o \in Kept(s, a)
    BY <1>4 DEF Answers
  <2> QED BY <1>4, <2>1
<1> QED BY <1>1, <1>2, <1>3, <1>4

LEMMA OthersAre ==
    /\ \A s, p : HandleInitialize(s, p) = Kept(s, Success(s.enabled))
    /\ InvalidParams.why = "params" /\ InvalidParams.code # "OK"
    /\ Disabled.why = "disabled" /\ Disabled.code # "OK"
    /\ Failure("METHOD_NOT_FOUND", "method").why = "method"
    /\ \A w : Failure("INVALID_PARAMS", w).why = w /\ Failure("INVALID_PARAMS", w).code # "OK"
BY DEF HandleInitialize, InvalidParams, Disabled, Failure

LEMMA ReadIs ==
    ASSUME NEW s, IsServer(s), NEW uri
    PROVE  /\ Read(s, uri).why \in {"none", "unknown"}
           /\ (uri \in Listed(s)) = (Read(s, uri).why # "unknown")
<1> DEFINE found == \E p \in Providers(s) : ReadResource(p, uri)
<1>1. \A p \in {"storage", "rag", "agent"} : uri \in ListResources(p) <=> ReadResource(p, uri)
  <2>1. uri \in ListResources("storage") <=> ReadResource("storage", uri)
    BY DEF ListResources, ReadResource
  <2>2. uri \in ListResources("rag") <=> ReadResource("rag", uri)
    BY DEF ListResources, ReadResource
  <2>3. uri \in ListResources("agent") <=> ReadResource("agent", uri)
    BY DEF ListResources, ReadResource
  <2> QED BY <2>1, <2>2, <2>3
<1>2. Providers(s) \subseteq {"storage", "rag", "agent"}
  BY DEF Providers, IsServer
<1>3. uri \in Listed(s) <=> found
  BY <1>1, <1>2 DEF Listed
<1>4. Read(s, uri) = IF found THEN Success({uri}) ELSE Failure("INVALID_PARAMS", "unknown")
  BY DEF Read
<1> HIDE DEF found
<1>5. CASE found
  BY <1>3, <1>4, <1>5, Answers1
<1>6. CASE ~ found
  BY <1>3, <1>4, <1>6, OthersAre
<1> QED BY <1>5, <1>6

LEMMA RenderIs ==
    ASSUME NEW name, NEW args
    PROVE  /\ Render(name, args).why \in {"none", "argument", "unknown"}
           /\ (name \in Prompts) = (Render(name, args).why # "unknown")
           /\ name \in Prompts /\ Has(args, PromptDefinition(name).required) =>
                Render(name, args).why # "argument"
<1>1. CASE name = "flash_troubleshoot"
  <2>1. Render(name, args) = Success({name})
    BY <1>1 DEF Render
  <2> QED BY <1>1, <2>1, Answers1 DEF Prompts
<1>2. CASE name = "flash_rag_synthesize"
  <2>1. Render(name, args) = IF Has(args, {"query"}) THEN Success({name})
                             ELSE Failure("INVALID_PARAMS", "argument")
    BY <1>2 DEF Render
  <2>2. PromptDefinition(name).required = {"query", "context"}
    BY <1>2 DEF PromptDefinition
  <2>3. Has(args, {"query", "context"}) => Has(args, {"query"})
    BY DEF Has
  <2>4. name \in Prompts
    BY <1>2 DEF Prompts
  <2>5. CASE Has(args, {"query"})
    BY <2>1, <2>4, <2>5, Answers1
  <2>6. CASE ~ Has(args, {"query"})
    <3>1. Render(name, args).why = "argument"
      BY <2>1, <2>6, OthersAre
    <3> QED BY <2>2, <2>3, <2>4, <2>6, <3>1
  <2> QED BY <2>5, <2>6
<1>3. CASE name = "flash_agent_orchestrate"
  <2>1. Render(name, args) = IF Has(args, {"goal"}) THEN Success({name})
                             ELSE Failure("INVALID_PARAMS", "argument")
    BY <1>3 DEF Render
  <2>2. PromptDefinition(name).required = {"goal"}
    BY <1>3 DEF PromptDefinition
  <2>4. name \in Prompts
    BY <1>3 DEF Prompts
  <2>5. CASE Has(args, {"goal"})
    BY <2>1, <2>4, <2>5, Answers1
  <2>6. CASE ~ Has(args, {"goal"})
    <3>1. Render(name, args).why = "argument"
      BY <2>1, <2>6, OthersAre
    <3> QED BY <2>2, <2>4, <2>6, <3>1
  <2> QED BY <2>5, <2>6
<1>4. CASE name \notin Prompts
  <2>1. Render(name, args) = Failure("INVALID_PARAMS", "unknown")
    BY <1>4 DEF Render, Prompts
  <2> QED BY <1>4, <2>1, OthersAre
<1> QED BY <1>1, <1>2, <1>3, <1>4 DEF Prompts

\* The handlers leave what the answers depend on, and none says a capability is disabled.
LEMMA HandlersKeep ==
    ASSUME NEW s, IsServer(s), NEW method, NEW params, ParamsFit(params),
           CapabilityOf(method) \subseteq s.enabled, NEW o \in Answers(s, method, params)
    PROVE  IsServer(o.server) /\ Alike(o.server, s) /\ o.answer.why # "disabled"
<1>0. Alike(s, s)
  BY DEF Alike
<1>1. ASSUME NEW a, o \in Kept(s, a), a.why # "disabled"
      PROVE  IsServer(o.server) /\ Alike(o.server, s) /\ o.answer.why # "disabled"
  BY <1>0, <1>1, KeptIs
<1>2. ASSUME NEW p, o \in HandleSetLevel(s, p)
      PROVE  IsServer(o.server) /\ Alike(o.server, s) /\ o.answer.why # "disabled"
  <2>1. \A l : LET x == [s EXCEPT !.level = l] IN IsServer(x) /\ Alike(x, s)
    BY DEF IsServer, Alike
  <2>2. \/ o \in Kept([s EXCEPT !.level = p.level], Success({})) \/ o \in Kept(s, InvalidParams)
    BY <1>2 DEF HandleSetLevel
  <2> QED BY <1>0, <2>1, <2>2, KeptIs, OthersAre, Answers1
<1>3. ASSUME NEW p, o \in HandleToolsCall(s, p)
      PROVE  IsServer(o.server) /\ Alike(o.server, s) /\ o.answer.why # "disabled"
  <2>1. Outcome(o, s, p.name, p.arguments)
    BY <1>3, CallIs DEF HandleToolsCall
  <2> QED BY <2>1 DEF Outcome
<1>4. ASSUME NEW p, o \in HandleResourcesRead(s, p) \/ o \in HandlePromptsGet(s, p)
      PROVE  IsServer(o.server) /\ Alike(o.server, s) /\ o.answer.why # "disabled"
  BY <1>1, <1>4, ReadIs, RenderIs DEF HandleResourcesRead, HandlePromptsGet
<1> QED BY <1>1, <1>2, <1>3, <1>4, AnsweredByHandler, OthersAre, Answers1

LEMMA AnswersKeep ==
    ASSUME NEW s, IsServer(s), NEW method, NEW params, ParamsFit(params),
           NEW o \in Answers(s, method, params)
    PROVE  /\ IsServer(o.server) /\ Alike(o.server, s)
           /\ (o.answer.why = "disabled") = ~ (CapabilityOf(method) \subseteq s.enabled)
           /\ o.answer.code = "OK" => CapabilityOf(method) \subseteq s.enabled
<1>1. CASE CapabilityOf(method) \subseteq s.enabled
  BY <1>1, HandlersKeep
<1>2. CASE ~ (CapabilityOf(method) \subseteq s.enabled)
  <2>1. o.server = s /\ o.answer = Disabled
    BY <1>2, KeptIs DEF Answers
  <2> QED BY <1>2, <2>1, OthersAre DEF Alike
<1> QED BY <1>1, <1>2

-----------------------------------------------------------------------------
(* The servers of a session                                                *)

IsSession == \E S : exchanges \in Seq(S)
Session == IsSession /\ \E h : Answered(h)

LEMMA SessionStarts == CatalogInit => Session
<1> SUFFICES ASSUME CatalogInit PROVE Session
  OBVIOUS
<1>1. exchanges = << >> /\ exchanges \in Seq({}) /\ Len(exchanges) = 0
  BY DEF CatalogInit
<1>2. IsServer(server) /\ Alike(server, server)
  BY DEF CatalogInit, IsServer, Alike
<1> DEFINE h == [i \in {1} |-> server]
<1>3. h[1] = server
  OBVIOUS
<1> HIDE DEF h
<1>4. Answered(h)
  BY <1>1, <1>2, <1>3 DEF Answered
<1> QED BY <1>1, <1>4 DEF Session, IsSession

LEMMA SessionGoesOn == Session /\ CatalogNext => Session'
<1> SUFFICES ASSUME Session, CatalogNext PROVE Session'
  OBVIOUS
<1>1. PICK req \in Requests : HandleRequest(req)
  BY DEF CatalogNext
<1>2. PICK o \in Answers(server, req.method, req.params) :
        /\ server' = o.server
        /\ exchanges' = Append(exchanges, [request |-> req, answer |-> o.answer])
  BY <1>1 DEF HandleRequest
<1>3. PICK S : exchanges \in Seq(S)
  BY DEF Session, IsSession
<1>4. PICK h : Answered(h)
  BY DEF Session
<1> DEFINE n == Len(exchanges)
           e == [request |-> req, answer |-> o.answer]
<1>5. n \in Nat /\ e.request = req /\ e.answer = o.answer
  BY <1>3
<1>6. /\ Append(exchanges, e) \in Seq(S \union {e})
      /\ Len(Append(exchanges, e)) = n + 1
      /\ Append(exchanges, e)[n + 1] = e
      /\ \A i \in 1..n : Append(exchanges, e)[i] = exchanges[i]
  <2> HIDE DEF e
  <2>1. exchanges \in Seq(S \union {e})
    BY <1>3
  <2> QED BY <2>1, AppendProperties
<1>7. /\ exchanges' = Append(exchanges, e)
      /\ ParamsFit(req.params)
  BY <1>2, RequestsFit
<1>8. PICK g : g[n + 2] = server' /\ \A i \in 1..(n + 1) : g[i] = h[i]
  <2> DEFINE k == [i \in 1..(n + 2) |-> IF i = n + 2 THEN server' ELSE h[i]]
  <2>1. k[n + 2] = server' /\ \A i \in 1..(n + 1) : k[i] = h[i]
    BY <1>5
  <2> HIDE DEF k
  <2> QED BY <2>1
<1>9. /\ h[n + 1] = server
      /\ \A i \in 1..(n + 1) : IsServer(h[i]) /\ Alike(h[i], server)
      /\ \A i \in 1..n :
           /\ ParamsFit(exchanges[i].request.params)
           /\ \E a \in Answers(h[i], exchanges[i].request.method, exchanges[i].request.params) :
                a.answer = exchanges[i].answer /\ a.server = h[i + 1]
  BY <1>4 DEF Answered, ParamsFit
<1>10. IsServer(server') /\ Alike(server', server)
  <2>1. IsServer(server)
    BY <1>5, <1>9
  <2> QED BY <1>2, <1>7, <2>1, AnswersKeep
<1>11. Alike(server', server') /\ \A r : Alike(r, server) => Alike(r, server')
  BY <1>10 DEF Alike
<1> DEFINE Step(x, i) ==
             /\ ParamsFit(x.request.params)
             /\ \E a \in Answers(g[i], x.request.method, x.request.params) :
                  a.answer = x.answer /\ a.server = g[i + 1]
<1>12. \A i \in 1..(n + 2) : IsServer(g[i]) /\ Alike(g[i], server')
  BY <1>5, <1>8, <1>9, <1>10, <1>11
<1>13. ASSUME NEW i \in 1..n PROVE Step(exchanges[i], i)
  <2>1. g[i] = h[i] /\ g[i + 1] = h[i + 1]
    BY <1>5, <1>8
  <2> QED BY <1>9, <2>1
<1>14. Step(e, n + 1)
  <2>1. g[n + 1] = server /\ g[(n + 1) + 1] = server'
    BY <1>5, <1>8, <1>9
  <2> QED BY <1>2, <1>5, <1>7, <2>1
<1>15. \A i \in 1..(n + 1) : Step(Append(exchanges, e)[i], i)
  <2> HIDE DEF Step, e
  <2> QED BY <1>5, <1>6, <1>13, <1>14
<1>16. Len(exchanges') = n + 1 /\ IsSession'
  BY <1>6, <1>7 DEF IsSession
<1>17. \A i \in 1..Len(exchanges') :
         /\ exchanges'[i].request.params = {} \/ \E p : exchanges'[i].request.params = {p}
         /\ \E a \in Answers(g[i], exchanges'[i].request.method, exchanges'[i].request.params) :
              a.answer = exchanges'[i].answer /\ a.server = g[i + 1]
  BY <1>7, <1>15, <1>16 DEF ParamsFit
<1>18. g[Len(exchanges') + 1] = server' /\ \A i \in 1..(Len(exchanges') + 1) : IsServer(g[i]) /\ Alike(g[i], server')
  BY <1>5, <1>8, <1>12, <1>16
<1>19. Answered(g)'
  BY <1>17, <1>18 DEF Answered
<1> QED BY <1>16, <1>19 DEF Session

-----------------------------------------------------------------------------
(* What the answers of a session have to do with each other                *)

\* What request i was answered with, by the server h[i].
LEMMA AnsweredBy ==
    ASSUME NEW h, Answered(h), IsSession, NEW i \in DOMAIN exchanges
    PROVE  /\ i \in Nat /\ i \in 1..Len(exchanges)
           /\ IsServer(h[i]) /\ ParamsFit(exchanges[i].request.params)
           /\ \E o \in Answers(h[i], exchanges[i].request.method, exchanges[i].request.params) :
                o.answer = exchanges[i].answer /\ o.server = h[i + 1]
<1>1. Len(exchanges) \in Nat /\ DOMAIN exchanges = 1..Len(exchanges)
  BY DEF IsSession
<1>2. i \in Nat /\ i \in 1..Len(exchanges) /\ i \in 1..(Len(exchanges) + 1)
  BY <1>1
<1>3. IsServer(h[i])
  BY <1>2 DEF Answered
<1>4. /\ exchanges[i].request.params = {} \/ \E p : exchanges[i].request.params = {p}
      /\ \E o \in Answers(h[i], exchanges[i].request.method, exchanges[i].request.params) :
           o.answer = exchanges[i].answer /\ o.server = h[i + 1]
  BY <1>2 DEF Answered
<1> QED BY <1>2, <1>3, <1>4 DEF ParamsFit

LEMMA AllAlike ==
    ASSUME NEW h, Answered(h), IsSession, NEW i \in DOMAIN exchanges, NEW j \in DOMAIN exchanges
    PROVE  Alike(h[i], h[j])
<1>1. Len(exchanges) \in Nat /\ DOMAIN exchanges = 1..Len(exchanges)
  BY DEF IsSession
<1>2. Alike(h[i], server) /\ Alike(h[j], server)
  BY <1>1 DEF Answered
<1> QED BY <1>2 DEF Alike

LEMMA Methods ==
    /\ CapabilityOf("tools/list") = {"tools"} /\ CapabilityOf("tools/call") = {"tools"}
    /\ CapabilityOf("resources/list") = {"resources"} /\ CapabilityOf("resources/read") = {"resources"}
    /\ CapabilityOf("prompts/list") = {"prompts"} /\ CapabilityOf("prompts/get") = {"prompts"}
    /\ CapabilityOf("initialize") = {}
BY DEF CapabilityOf

\* What the lists and initialize say, if they are answered.
LEMMA ListsAre ==
    ASSUME NEW s, IsServer(s), NEW method, NEW params, ParamsFit(params),
           NEW o \in Answers(s, method, params), o.answer.code = "OK"
    PROVE  /\ CapabilityOf(method) \subseteq s.enabled
           /\ method = "initialize" => o.answer.body = s.enabled
           /\ method = "tools/list" => o.answer.body = Tools
           /\ method = "prompts/list" => o.answer.body = Prompts
           /\ method = "resources/list" => o.answer.body = Listed(s)
<1>1. CapabilityOf(method) \subseteq s.enabled
  BY AnswersKeep
<1>2. CASE method = "initialize"
  <2>1. "initialize" \in Parsing
    BY DEF Parsing
  <2>2. \/ o \in Kept(s, InvalidParams) \/ o \in Kept(s, Failure("METHOD_NOT_FOUND", "method"))
        \/ \E p : o \in HandleInitialize(s, p)
    BY <1>1, <1>2, <2>1, AnsweredByHandler
  <2>3. Failure("METHOD_NOT_FOUND", "method").code # "OK"
    BY DEF Failure
  <2> QED BY <1>1, <1>2, <2>2, <2>3, KeptIs, OthersAre, Answers1
<1>3. CASE method = "tools/list"
  <2>1. o \in Kept(s, Success(Tools))
    BY <1>1, <1>3, AnsweredByHandler
  <2> QED BY <1>1, <1>3, <2>1, KeptIs, Answers1
<1>4. CASE method = "prompts/list"
  <2>1. o \in Kept(s, Success(Prompts))
    BY <1>1, <1>4, AnsweredByHandler
  <2> QED BY <1>1, <1>4, <2>1, KeptIs, Answers1
<1>5. CASE method = "resources/list"
  <2>1. o \in Kept(s, Success(Listed(s)))
    BY <1>1, <1>5, AnsweredByHandler
  <2> QED BY <1>1, <1>5, <2>1, KeptIs, Answers1
<1> QED BY <1>1, <1>2, <1>3, <1>4, <1>5

\* What the methods that take a tool, a prompt or a resource are answered with.
LEMMA HandlersAre ==
    ASSUME NEW s, NEW method, NEW p, CapabilityOf(method) \subseteq s.enabled,
           NEW o \in Answers(s, method, {p})
    PROVE  /\ method = "tools/call" => o \in Call(s, p.name, p.arguments)
           /\ method = "prompts/get" => o \in Kept(s, Render(p.name, p.arguments))
           /\ method = "resources/read" => o \in Kept(s, Read(s, p.uri))
<1>1. method \in {"tools/call", "prompts/get", "resources/read"} => method \in Parsing
  BY DEF Parsing
<1>2. \A q : {p} = {q} => p = q
  OBVIOUS
<1>3. ParamsFit({p}) /\ {p} # {}
  BY DEF ParamsFit
<1> QED BY <1>1, <1>2, <1>3, AnsweredByHandler
        DEF HandleToolsCall, HandlePromptsGet, HandleResourcesRead

\* A get after a put or a delete of its key, with nothing in between.
LEMMA GetAfterPut ==
    ASSUME NEW s, IsServer(s), NEW before, NEW after,
           before["key"] = after["key"], NEW o \in PutTool(s, before), o.answer.code = "OK",
           NEW a \in GetTool(o.server, after), a.answer.code = "OK"
    PROVE  a.answer.body = {before["value"]}
<1>1. o.server = AfterPut(s, before) /\ a.answer.body = Lookup(o.server, after)
  BY PutIs, GetIs, Answers1
<1> DEFINE pairs == [k \in DOMAIN s.pairs \union {before["key"]} |->
                       IF k = before["key"] THEN before["value"] ELSE s.pairs[k]]
<1>2. AfterPut(s, before).pairs = pairs
  <2>1. AfterPut(s, before) = [s EXCEPT !.pairs = pairs]
    BY DEF AfterPut
  <2> HIDE DEF pairs
  <2> QED BY <2>1 DEF IsServer
<1>3. DOMAIN pairs = DOMAIN s.pairs \union {before["key"]} /\ pairs[before["key"]] = before["value"]
  OBVIOUS
<1> HIDE DEF pairs
<1>4. {after["key"]} \intersect DOMAIN pairs = {before["key"]}
  BY <1>3
<1> QED BY <1>1, <1>2, <1>3, <1>4 DEF Lookup

LEMMA GetAfterDelete ==
    ASSUME NEW s, IsServer(s), NEW before, NEW after,
           before["key"] = after["key"], NEW o \in DeleteTool(s, before), o.answer.code = "OK",
           NEW a \in GetTool(o.server, after), a.answer.code = "OK"
    PROVE  a.answer.body = {}
<1>1. o.server = AfterDelete(s, before) /\ a.answer.body = Lookup(o.server, after)
  BY DeleteIs, GetIs, Answers1
<1> DEFINE pairs == [k \in DOMAIN s.pairs \ {before["key"]} |-> s.pairs[k]]
<1>2. AfterDelete(s, before).pairs = pairs
  <2>1. AfterDelete(s, before) = [s EXCEPT !.pairs = pairs]
    BY DEF AfterDelete
  <2> HIDE DEF pairs
  <2> QED BY <2>1 DEF IsServer
<1>3. DOMAIN pairs = DOMAIN s.pairs \ {before["key"]}
  OBVIOUS
<1> HIDE DEF pairs
<1>4. {after["key"]} \intersect DOMAIN pairs = {}
  BY <1>3
<1> QED BY <1>1, <1>2, <1>4 DEF Lookup

\* The parts of PromisesKept, for requests i and j.
WhyOf(j) == exchanges[j].answer.why
ParamsOf(j) == exchanges[j].request.params
DisabledOrNot(i, j) ==
    Asked(i, "initialize") =>
      (WhyOf(j) = "disabled") = ~ (CapabilityOf(exchanges[j].request.method) \subseteq Body(i))
Usable(i, j, p, required) ==
    /\ (p.name \in Body(i)) = (WhyOf(j) # "unknown")
    /\ p.name \in Body(i) /\ Has(p.arguments, required) => WhyOf(j) # "argument"
ToolsUsable(i, j) ==
    Asked(i, "tools/list") /\ Asked(j, "tools/call") =>
      \A p \in ParamsOf(j) : Usable(i, j, p, Schema(p.name).required)
PromptsUsable(i, j) ==
    Asked(i, "prompts/list") /\ Asked(j, "prompts/get") =>
      \A p \in ParamsOf(j) : Usable(i, j, p, PromptDefinition(p.name).required)
ResourcesFound(i, j) ==
    Asked(i, "resources/list") /\ Asked(j, "resources/read") =>
      \A p \in ParamsOf(j) : (p.uri \in Body(i)) = (WhyOf(j) # "unknown")
GetsAfter(i, j, tool) ==
    /\ ToolCalled(j, "flash_get") /\ Ok(j) /\ j = i + 1
    /\ ToolCalled(i, tool) /\ KeyOf(i) = KeyOf(j)
ValuesOf(i) == {p.arguments["value"] : p \in ParamsOf(i)}
PutIsFound(i, j) == GetsAfter(i, j, "flash_put") => Body(j) = ValuesOf(i)
DeletedIsGone(i, j) == GetsAfter(i, j, "flash_delete") => Body(j) = {}

\* A call of a tool, with the server it was answered by and its arguments.
LEMMA CalledWith ==
    ASSUME NEW h, Answered(h), IsSession, NEW i \in DOMAIN exchanges, NEW tool, ToolCalled(i, tool), Ok(i)
    PROVE  \E args : /\ KeyOf(i) = args["key"]
                     /\ ValuesOf(i) = {args["value"]}
                     /\ \E o \in Call(h[i], tool, args) :
                          o.answer = exchanges[i].answer /\ o.server = h[i + 1]
<1>1. /\ IsServer(h[i]) /\ ParamsFit(ParamsOf(i))
      /\ \E o \in Answers(h[i], "tools/call", ParamsOf(i)) :
           o.answer = exchanges[i].answer /\ o.server = h[i + 1]
  BY AnsweredBy DEF ParamsOf, ToolCalled, Asked
<1>2. PICK o \in Answers(h[i], "tools/call", ParamsOf(i)) :
        o.answer = exchanges[i].answer /\ o.server = h[i + 1]
  BY <1>1
<1>3. PICK p : ParamsOf(i) = {p} /\ p.name = tool
  BY <1>1 DEF ParamsFit, ToolCalled, ParamsOf
<1>4. o.answer.code = "OK"
  BY <1>2 DEF Ok
<1>5. o \in Call(h[i], tool, p.arguments)
  <2>1. CapabilityOf("tools/call") \subseteq h[i].enabled
    BY <1>1, <1>4, AnswersKeep
  <2> QED BY <1>3, <2>1, HandlersAre
<1>6. KeyOf(i) = p.arguments["key"]
  <2>1. KeyOf(i) = (CHOOSE q \in ParamsOf(i) : TRUE).arguments["key"]
    BY DEF KeyOf, ParamsOf
  <2>2. (CHOOSE q \in {p} : TRUE) = p
    OBVIOUS
  <2> QED BY <1>3, <2>1, <2>2
<1>7. ValuesOf(i) = {p.arguments["value"]}
  BY <1>3 DEF ValuesOf
<1> QED BY <1>2, <1>5, <1>6, <1>7

\* What the lists of a session promise, a later request keeps.
LEMMA PromisesOfASession == Session => PromisesKept
<1> SUFFICES ASSUME Session,
                    NEW i \in DOMAIN exchanges, NEW j \in DOMAIN exchanges, i < j, Ok(i)
             PROVE  /\ DisabledOrNot(i, j) /\ ToolsUsable(i, j) /\ PromptsUsable(i, j)
                    /\ ResourcesFound(i, j) /\ PutIsFound(i, j) /\ DeletedIsGone(i, j)
  BY DEF PromisesKept, DisabledOrNot, ToolsUsable, PromptsUsable, ResourcesFound, PutIsFound,
         DeletedIsGone, GetsAfter, Usable, WhyOf, ParamsOf, ValuesOf
<1>1. IsSession
  BY DEF Session
<1>2. PICK h : Answered(h)
  BY DEF Session
<1>3. /\ IsServer(h[i]) /\ ParamsFit(ParamsOf(i)) /\ IsServer(h[j]) /\ ParamsFit(ParamsOf(j))
      /\ Alike(h[i], h[j])
  BY <1>1, <1>2, AnsweredBy, AllAlike DEF ParamsOf
<1>4. PICK a \in Answers(h[i], exchanges[i].request.method, ParamsOf(i)) :
        a.answer = exchanges[i].answer
  BY <1>1, <1>2, AnsweredBy DEF ParamsOf
<1>5. PICK o \in Answers(h[j], exchanges[j].request.method, ParamsOf(j)) :
        o.answer = exchanges[j].answer
  BY <1>1, <1>2, AnsweredBy DEF ParamsOf
<1>6. a.answer.code = "OK" /\ a.answer.body = Body(i) /\ o.answer.why = WhyOf(j)
  BY <1>4, <1>5 DEF Ok, Body, WhyOf
<1>7. /\ CapabilityOf(exchanges[i].request.method) \subseteq h[i].enabled
      /\ Asked(i, "initialize") => Body(i) = h[i].enabled
      /\ Asked(i, "tools/list") => Body(i) = Tools
      /\ Asked(i, "prompts/list") => Body(i) = Prompts
      /\ Asked(i, "resources/list") => Body(i) = Listed(h[i])
  BY <1>3, <1>6, ListsAre DEF Asked
<1>8. (WhyOf(j) = "disabled") = ~ (CapabilityOf(exchanges[j].request.method) \subseteq h[j].enabled)
  BY <1>3, <1>6, AnswersKeep
<1>9. h[i].enabled = h[j].enabled /\ h[i].engines = h[j].engines
  BY <1>3 DEF Alike
<1>10. DisabledOrNot(i, j)
  BY <1>7, <1>8, <1>9 DEF DisabledOrNot
<1>11. \A p \in ParamsOf(j) : ParamsOf(j) = {p}
  BY <1>3 DEF ParamsFit
<1>12. ToolsUsable(i, j)
  <2> SUFFICES ASSUME Asked(i, "tools/list"), Asked(j, "tools/call"), NEW p \in ParamsOf(j)
               PROVE  Usable(i, j, p, Schema(p.name).required)
    BY DEF ToolsUsable
  <2>1. o \in Answers(h[j], "tools/call", {p})
    BY <1>11 DEF Asked
  <2>2. CapabilityOf("tools/call") \subseteq h[j].enabled /\ Body(i) = Tools
    BY <1>7, <1>9, Methods DEF Asked
  <2>3. o \in Call(h[j], p.name, p.arguments)
    BY <2>1, <2>2, HandlersAre
  <2>4. Outcome(o, h[j], p.name, p.arguments)
    BY <1>3, <2>3, CallIs
  <2> QED BY <1>6, <2>2, <2>4 DEF Outcome, Usable
<1>13. PromptsUsable(i, j)
  <2> SUFFICES ASSUME Asked(i, "prompts/list"), Asked(j, "prompts/get"), NEW p \in ParamsOf(j)
               PROVE  Usable(i, j, p, PromptDefinition(p.name).required)
    BY DEF PromptsUsable
  <2>1. o \in Answers(h[j], "prompts/get", {p})
    BY <1>11 DEF Asked
  <2>2. CapabilityOf("prompts/get") \subseteq h[j].enabled /\ Body(i) = Prompts
    BY <1>7, <1>9, Methods DEF Asked
  <2>3. o.answer = Render(p.name, p.arguments)
    BY <2>1, <2>2, HandlersAre, KeptIs
  <2> QED BY <1>6, <2>2, <2>3, RenderIs DEF Usable
<1>14. ResourcesFound(i, j)
  <2> SUFFICES ASSUME Asked(i, "resources/list"), Asked(j, "resources/read"), NEW p \in ParamsOf(j)
               PROVE  (p.uri \in Body(i)) = (WhyOf(j) # "unknown")
    BY DEF ResourcesFound
  <2>1. o \in Answers(h[j], "resources/read", {p})
    BY <1>11 DEF Asked
  <2>2. CapabilityOf("resources/read") \subseteq h[j].enabled /\ Body(i) = Listed(h[i])
    BY <1>7, <1>9, Methods DEF Asked
  <2>3. o.answer = Read(h[j], p.uri)
    BY <2>1, <2>2, HandlersAre, KeptIs
  <2>4. Listed(h[i]) = Listed(h[j])
    BY <1>9 DEF Listed, Providers
  <2> QED BY <1>3, <1>6, <2>2, <2>3, <2>4, ReadIs
<1>15. PutIsFound(i, j)
  <2> SUFFICES ASSUME GetsAfter(i, j, "flash_put")
               PROVE  Body(j) = ValuesOf(i)
    BY DEF PutIsFound
  <2>1. /\ ToolCalled(i, "flash_put") /\ ToolCalled(j, "flash_get") /\ Ok(j)
        /\ KeyOf(i) = KeyOf(j) /\ h[i + 1] = h[j]
    BY DEF GetsAfter
  <2>2. PICK before : \E put \in Call(h[i], "flash_put", before) :
          /\ KeyOf(i) = before["key"]
          /\ ValuesOf(i) = {before["value"]}
          /\ put.answer = exchanges[i].answer /\ put.server = h[i + 1]
    BY <1>1, <1>2, <2>1, CalledWith
  <2>3. PICK after : \E get \in Call(h[j], "flash_get", after) :
          KeyOf(j) = after["key"] /\ get.answer = exchanges[j].answer
    BY <1>1, <1>2, <2>1, CalledWith
  <2>4. PICK put \in Call(h[i], "flash_put", before) :
          /\ KeyOf(i) = before["key"]
          /\ ValuesOf(i) = {before["value"]}
          /\ put.answer = exchanges[i].answer /\ put.server = h[i + 1]
    BY <2>2
  <2>5. PICK get \in Call(h[j], "flash_get", after) :
          KeyOf(j) = after["key"] /\ get.answer = exchanges[j].answer
    BY <2>3
  <2>6. put \in PutTool(h[i], before) /\ get \in GetTool(put.server, after)
    BY <2>1, <2>4, <2>5 DEF Call
  <2>7. put.answer.code = "OK" /\ get.answer.code = "OK" /\ get.answer.body = Body(j)
    BY <2>1, <2>4, <2>5 DEF Ok, Body
  <2>8. before["key"] = after["key"]
    BY <2>1, <2>4, <2>5
  <2>9. get.answer.body = {before["value"]}
    BY <1>3, <2>6, <2>7, <2>8, GetAfterPut
  <2> QED BY <2>4, <2>7, <2>9
<1>16. DeletedIsGone(i, j)
  <2> SUFFICES ASSUME GetsAfter(i, j, "flash_delete")
               PROVE  Body(j) = {}
    BY DEF DeletedIsGone
  <2>1. /\ ToolCalled(i, "flash_delete") /\ ToolCalled(j, "flash_get") /\ Ok(j)
        /\ KeyOf(i) = KeyOf(j) /\ h[i + 1] = h[j]
    BY DEF GetsAfter
  <2>2. PICK before : \E del \in Call(h[i], "flash_delete", before) :
          /\ KeyOf(i) = before["key"]
          /\ del.answer = exchanges[i].answer /\ del.server = h[i + 1]
    BY <1>1, <1>2, <2>1, CalledWith
  <2>3. PICK after : \E get \in Call(h[j], "flash_get", after) :
          KeyOf(j) = after["key"] /\ get.answer = exchanges[j].answer
    BY <1>1, <1>2, <2>1, CalledWith
  <2>4. PICK del \in Call(h[i], "flash_delete", before) :
          /\ KeyOf(i) = before["key"]
          /\ del.answer = exchanges[i].answer /\ del.server = h[i + 1]
    BY <2>2
  <2>5. PICK get \in Call(h[j], "flash_get", after) :
          KeyOf(j) = after["key"] /\ get.answer = exchanges[j].answer
    BY <2>3
  <2>6. del \in DeleteTool(h[i], before) /\ get \in GetTool(del.server, after)
    BY <2>1, <2>4, <2>5 DEF Call
  <2>7. del.answer.code = "OK" /\ get.answer.code = "OK" /\ get.answer.body = Body(j)
    BY <2>1, <2>4, <2>5 DEF Ok, Body
  <2>8. before["key"] = after["key"]
    BY <2>1, <2>4, <2>5
  <2>9. get.answer.body = {}
    BY <1>3, <2>6, <2>7, <2>8, GetAfterDelete
  <2> QED BY <2>7, <2>9
<1> QED BY <1>10, <1>12, <1>13, <1>14, <1>15, <1>16

\* Whatever a client asks, in any order: a method is refused as disabled just if initialize
\* did not name its capability, what a list named is found and usable with what its definition
\* requires, and a get returns what the put or delete before it left (server.rs:145-457).
THEOREM SessionsKeepTheirPromises == CatalogSpec => []PromisesKept
<1>1. CatalogInit => Session
  BY SessionStarts
<1>2. Session /\ [CatalogNext]_catalogVars => Session'
  <2> SUFFICES ASSUME Session, UNCHANGED catalogVars PROVE Session'
    BY SessionGoesOn
  <2>1. server' = server /\ exchanges' = exchanges
    BY DEF catalogVars
  <2>2. IsSession'
    BY <2>1 DEF Session, IsSession
  <2>3. \E h : Answered(h)'
    BY <2>1 DEF Session, Answered
  <2> QED BY <2>2, <2>3 DEF Session
<1>3. Session => PromisesKept
  BY PromisesOfASession
<1> QED BY <1>1, <1>2, <1>3, PTL DEF CatalogSpec

-----------------------------------------------------------------------------
(* The sparse index                                                        *)

Texts == {b.text : b \in Bodies}

\* Finitely many documents.
IsDocs(f) == IsFiniteSet(DOMAIN f) /\ f \in [DOMAIN f -> Texts]

TermsOf(f) == UNION {Range(f[d]) : d \in DOMAIN f}
Holding(f, t) == {d \in DOMAIN f : t \in Range(f[d])}
PostingsOf(f) == [t \in TermsOf(f) |-> [d \in Holding(f, t) |-> Occurrences(f[d], t)]]
LengthsOf(f) == [d \in DOMAIN f |-> Len(f[d])]

\* The index that IndexesAgree asks for.
SparseOf(f) ==
    [postings |-> PostingsOf(f), lengths |-> LengthsOf(f), total |-> SumFunction(LengthsOf(f))]

LEMMA TextsAreFinite == \A text \in Texts : text \in Seq(Range(text)) /\ Len(text) \in Nat
<1> SUFFICES ASSUME NEW text \in Texts PROVE text \in Seq(Range(text)) /\ Len(text) \in Nat
  OBVIOUS
<1>1. PICK b \in Bodies : text = b.text
  BY DEF Texts
<1>2. text \in Seq(Range(text))
  BY <1>1, BodiesAreDocuments
<1> QED BY <1>2

LEMMA IsTermOf == ASSUME NEW f, NEW t PROVE t \in TermsOf(f) <=> Holding(f, t) # {}
BY DEF TermsOf, Holding

LEMMA DropDocs ==
    ASSUME NEW f, IsDocs(f), NEW d
    PROVE  /\ IsDocs(Drop(f, d)) /\ DOMAIN Drop(f, d) = DOMAIN f \ {d}
           /\ \A e \in DOMAIN f \ {d} : Drop(f, d)[e] = f[e]
           /\ d \notin DOMAIN f => Drop(f, d) = f
<1>1. /\ DOMAIN Drop(f, d) = DOMAIN f \ {d}
      /\ \A e \in DOMAIN f \ {d} : Drop(f, d)[e] = f[e]
  BY DEF Drop
<1>2. IsFiniteSet(DOMAIN f \ {d})
  BY FS_RemoveElement DEF IsDocs
<1>3. f \in [DOMAIN f -> Texts]
  BY DEF IsDocs
<1>4. Drop(f, d) \in [DOMAIN f \ {d} -> Texts]
  BY <1>3 DEF Drop
<1>5. d \notin DOMAIN f => Drop(f, d) = f
  BY <1>3 DEF Drop
<1> QED BY <1>1, <1>2, <1>4, <1>5 DEF IsDocs

LEMMA PutDocs ==
    ASSUME NEW f, IsDocs(f), NEW d, NEW text \in Texts
    PROVE  /\ IsDocs(Put(f, d, text)) /\ DOMAIN Put(f, d, text) = DOMAIN f \union {d}
           /\ Put(f, d, text)[d] = text
           /\ \A e \in DOMAIN f \ {d} : Put(f, d, text)[e] = f[e]
           /\ Put(Drop(f, d), d, text) = Put(f, d, text)
<1>1. /\ DOMAIN Put(f, d, text) = DOMAIN f \union {d} /\ Put(f, d, text)[d] = text
      /\ \A e \in DOMAIN f \ {d} : Put(f, d, text)[e] = f[e]
  BY DEF Put
<1>2. IsFiniteSet(DOMAIN f \union {d})
  BY FS_AddElement DEF IsDocs
<1>3. f \in [DOMAIN f -> Texts]
  BY DEF IsDocs
<1>4. Put(f, d, text) \in [DOMAIN f \union {d} -> Texts]
  BY <1>3 DEF Put
<1>5. Put(Drop(f, d), d, text) = Put(f, d, text)
  <2>1. DOMAIN Drop(f, d) \union {d} = DOMAIN f \union {d}
    BY DEF Drop
  <2>2. \A e \in DOMAIN f \union {d} : e # d => Drop(f, d)[e] = f[e]
    BY DEF Drop
  <2> QED BY <2>1, <2>2 DEF Put
<1> QED BY <1>1, <1>2, <1>4, <1>5 DEF IsDocs

LEMMA LengthsAreNat ==
    ASSUME NEW f, IsDocs(f)
    PROVE  LengthsOf(f) \in [DOMAIN f -> Nat] /\ SumFunction(LengthsOf(f)) \in Nat
<1>1. LengthsOf(f) \in [DOMAIN f -> Nat]
  BY TextsAreFinite DEF LengthsOf, IsDocs
<1> QED BY <1>1, SumIsNat DEF IsDocs

\* Removing a document leaves the index of the others.
LEMMA SparseRemoveIs ==
    ASSUME NEW f, IsDocs(f), NEW d
    PROVE  SparseRemove(SparseOf(f), d) = SparseOf(Drop(f, d))
<1> DEFINE s == SparseOf(f)
           g == Drop(f, d)
<1>1. s.postings = PostingsOf(f) /\ s.lengths = LengthsOf(f) /\ s.total = SumFunction(LengthsOf(f))
  BY DEF SparseOf
<1>2. DOMAIN s.lengths = DOMAIN f
  BY <1>1 DEF LengthsOf
<1>3. CASE d \notin DOMAIN f
  BY <1>2, <1>3, DropDocs DEF SparseRemove
<1>4. CASE d \in DOMAIN f
  <2> DEFINE left == [t \in DOMAIN s.postings |-> Drop(s.postings[t], d)]
             kept == {t \in DOMAIN left : DOMAIN left[t] # {}}
  <2>1. /\ DOMAIN g = DOMAIN f \ {d} /\ IsDocs(g)
        /\ \A e \in DOMAIN f \ {d} : g[e] = f[e]
    BY DropDocs
  <2>2. \A t : Holding(g, t) = Holding(f, t) \ {d}
    BY <2>1 DEF Holding
  <2>3. ASSUME NEW t \in TermsOf(f)
        PROVE  left[t] = [e \in Holding(g, t) |-> Occurrences(g[e], t)]
    <3>1. left[t] = Drop([e \in Holding(f, t) |-> Occurrences(f[e], t)], d)
      BY <1>1 DEF PostingsOf
    <3>2. left[t] = [e \in Holding(g, t) |-> Occurrences(f[e], t)]
      BY <2>2, <3>1 DEF Drop
    <3>3. \A e \in Holding(g, t) : g[e] = f[e]
      BY <2>1, <2>2 DEF Holding
    <3> QED BY <3>2, <3>3
  <2>4. DOMAIN left = TermsOf(f)
    BY <1>1 DEF PostingsOf
  <2>5. kept = TermsOf(g)
    <3>1. \A t \in TermsOf(f) : DOMAIN left[t] = Holding(g, t)
      BY <2>3
    <3>2. \A t \in TermsOf(g) : t \in TermsOf(f)
      BY <2>2, IsTermOf
    <3> HIDE DEF left
    <3> QED BY <2>4, <3>1, <3>2, IsTermOf
  <2>6. Restrict(left, kept) = PostingsOf(g)
    <3>1. \A t \in TermsOf(g) : t \in TermsOf(f)
      BY <2>2, IsTermOf
    <3> HIDE DEF left, kept, g
    <3> QED BY <2>3, <2>5, <3>1 DEF PostingsOf, Restrict
  <2>7. Drop(s.lengths, d) = LengthsOf(g)
    <3>1. Drop(LengthsOf(f), d) = [e \in DOMAIN f \ {d} |-> Len(f[e])]
      BY DEF Drop, LengthsOf
    <3>2. LengthsOf(g) = [e \in DOMAIN f \ {d} |-> Len(f[e])]
      BY <2>1 DEF LengthsOf
    <3> QED BY <1>1, <3>1, <3>2
  <2>8. Max({0, s.total - s.lengths[d]}) = SumFunction(LengthsOf(g))
    <3>1. LengthsOf(f) \in [DOMAIN f -> Int] /\ IsFiniteSet(DOMAIN f)
      BY LengthsAreNat DEF IsDocs
    <3>2. LengthsOf(g) = [e \in DOMAIN f \ {d} |-> LengthsOf(f)[e]]
      BY <1>1, <2>7 DEF Drop, LengthsOf
    <3> HIDE DEF g, s
    <3>3. SumFunction(LengthsOf(f)) = LengthsOf(f)[d] + SumFunction(LengthsOf(g))
      <4>1. d \in DOMAIN f
        BY <1>4
      <4> QED BY <3>1, <3>2, <4>1, SumDrop
    <3>4. SumFunction(LengthsOf(g)) \in Nat /\ LengthsOf(f)[d] \in Int
      BY <1>4, <2>1, <3>1, LengthsAreNat
    <3>5. PICK n \in Nat : n = SumFunction(LengthsOf(g))
      BY <3>4
    <3>6. s.total - s.lengths[d] = n
      BY <1>1, <3>3, <3>4, <3>5
    <3>7. Max({0, n}) = n
      BY DEF Max
    <3> QED BY <3>5, <3>6, <3>7
  <2>9. SparseRemove(s, d) =
          [postings |-> Restrict(left, kept), lengths |-> Drop(s.lengths, d),
           total |-> Max({0, s.total - s.lengths[d]})]
    BY <1>2, <1>4 DEF SparseRemove
  <2> QED BY <2>6, <2>7, <2>8, <2>9 DEF SparseOf
<1> QED BY <1>3, <1>4

\* Adding one makes the index of the documents with it.
LEMMA SparseAddIs ==
    ASSUME NEW f, IsDocs(f), NEW d, NEW text \in Texts
    PROVE  SparseAdd(SparseOf(f), d, text) = SparseOf(Put(f, d, text))
<1> DEFINE g == Drop(f, d)
           r == SparseRemove(SparseOf(f), d)
           h == Put(f, d, text)
           post(t) == LET p == IF t \in DOMAIN r.postings THEN r.postings[t] ELSE << >>
                      IN  IF t \in Range(text) THEN Put(p, d, Occurrences(text, t)) ELSE p
           added == [t \in DOMAIN r.postings \union Range(text) |-> post(t)]
<1>1. r = SparseOf(g) /\ IsDocs(g) /\ d \notin DOMAIN g
  <2>1. r = SparseOf(g)
    BY SparseRemoveIs, Zenon
  <2>2. IsDocs(g) /\ DOMAIN g = DOMAIN f \ {d}
    BY DropDocs, Zenon
  <2> QED BY <2>1, <2>2
<1>2. /\ h = Put(g, d, text) /\ DOMAIN h = DOMAIN g \union {d} /\ IsDocs(h)
      /\ h[d] = text /\ \A e \in DOMAIN g : h[e] = g[e]
  <2>1. /\ IsDocs(Put(f, d, text)) /\ DOMAIN Put(f, d, text) = DOMAIN f \union {d}
        /\ Put(f, d, text)[d] = text
        /\ \A e \in DOMAIN f \ {d} : Put(f, d, text)[e] = f[e]
        /\ Put(Drop(f, d), d, text) = Put(f, d, text)
    BY PutDocs, Zenon
  <2>2. DOMAIN g = DOMAIN f \ {d} /\ \A e \in DOMAIN f \ {d} : g[e] = f[e]
    BY DropDocs
  <2>3. /\ IsDocs(h) /\ DOMAIN h = DOMAIN f \union {d} /\ h[d] = text /\ Put(g, d, text) = h
        /\ \A e \in DOMAIN f \ {d} : h[e] = f[e]
    BY <2>1
  <2> HIDE DEF g, h
  <2> QED BY <2>2, <2>3
<1>3. r.postings = PostingsOf(g) /\ r.lengths = LengthsOf(g) /\ r.total = SumFunction(LengthsOf(g))
  BY <1>1 DEF SparseOf
<1>4. SparseAdd(SparseOf(f), d, text) =
        [postings |-> added, lengths |-> Put(r.lengths, d, Len(text)), total |-> r.total + Len(text)]
  BY DEF SparseAdd
<1> HIDE DEF g, h, r
<1>5. \A t : Holding(h, t) = IF t \in Range(text) THEN Holding(g, t) \union {d} ELSE Holding(g, t)
  BY <1>1, <1>2 DEF Holding
<1>6. added = PostingsOf(h)
  <2>1. DOMAIN r.postings = TermsOf(g)
    BY <1>3 DEF PostingsOf
  <2>2. DOMAIN r.postings \union Range(text) = TermsOf(h)
    <3>1. \A t \in TermsOf(h) : t \in TermsOf(g) \union Range(text)
      BY <1>5, IsTermOf
    <3>2. \A t \in TermsOf(g) \union Range(text) : t \in TermsOf(h)
      BY <1>5, IsTermOf
    <3> QED BY <2>1, <3>1, <3>2
  <2>3. ASSUME NEW t \in TermsOf(h)
        PROVE  post(t) = [e \in Holding(h, t) |-> Occurrences(h[e], t)]
    <3> DEFINE p == IF t \in DOMAIN r.postings THEN r.postings[t] ELSE << >>
    <3>1. p = [e \in Holding(g, t) |-> Occurrences(g[e], t)]
      <4>1. CASE t \in TermsOf(g)
        BY <1>3, <2>1, <4>1 DEF PostingsOf
      <4>2. CASE t \notin TermsOf(g)
        <5>1. Holding(g, t) = {} /\ p = << >>
          BY <2>1, <4>2, IsTermOf
        <5> HIDE DEF p
        <5> QED BY <5>1
      <4> QED BY <4>1, <4>2
    <3>2. post(t) = IF t \in Range(text) THEN Put(p, d, Occurrences(text, t)) ELSE p
      OBVIOUS
    <3> HIDE DEF p, post
    <3>3. \A e \in Holding(g, t) : e # d /\ h[e] = g[e]
      BY <1>1, <1>2 DEF Holding
    <3>4. CASE t \in Range(text)
      <4>1. Put(p, d, Occurrences(text, t)) =
              [e \in Holding(g, t) \union {d} |->
                 IF e = d THEN Occurrences(text, t) ELSE Occurrences(g[e], t)]
        BY <3>1 DEF Put
      <4>2. \A e \in Holding(h, t) :
              (IF e = d THEN Occurrences(text, t) ELSE Occurrences(g[e], t)) = Occurrences(h[e], t)
        BY <1>2, <1>5, <3>3, <3>4
      <4>3. Holding(h, t) = Holding(g, t) \union {d}
        BY <1>5, <3>4
      <4> QED BY <3>2, <3>4, <4>1, <4>2, <4>3
    <3>5. CASE t \notin Range(text)
      <4>1. Holding(h, t) = Holding(g, t) /\ post(t) = p
        BY <1>5, <3>2, <3>5
      <4> QED BY <3>1, <3>3, <4>1
    <3> QED BY <3>4, <3>5
  <2> HIDE DEF post
  <2> QED BY <2>2, <2>3 DEF PostingsOf
<1>7. Put(r.lengths, d, Len(text)) = LengthsOf(h)
  BY <1>1, <1>2, <1>3 DEF Put, LengthsOf
<1>8. r.total + Len(text) = SumFunction(LengthsOf(h))
  <2>1. LengthsOf(h) \in [DOMAIN h -> Int] /\ IsFiniteSet(DOMAIN h) /\ d \in DOMAIN h
    BY <1>2, LengthsAreNat DEF IsDocs
  <2>2. LengthsOf(g) = [e \in DOMAIN h \ {d} |-> LengthsOf(h)[e]]
    BY <1>1, <1>2 DEF Drop, LengthsOf
  <2>3. SumFunction(LengthsOf(h)) = LengthsOf(h)[d] + SumFunction(LengthsOf(g))
    BY <2>1, <2>2, SumDrop
  <2>4. LengthsOf(h)[d] = Len(text) /\ Len(text) \in Nat /\ SumFunction(LengthsOf(g)) \in Nat
    BY <1>1, <1>2, TextsAreFinite, LengthsAreNat DEF LengthsOf
  <2> QED BY <1>3, <2>3, <2>4
<1>9. SparseAdd(SparseOf(f), d, text) = SparseOf(h)
  <2> HIDE DEF added
  <2> QED BY <1>4, <1>6, <1>7, <1>8 DEF SparseOf
<1> QED BY <1>9 DEF h

-----------------------------------------------------------------------------
(* What is left of a cache                                                 *)

IsCache(c) == c \in Seq(Range(c))

\* r has some entries of c, those of places of P up to m, and none of them twice.
PicksBy(f, r, c) ==
    /\ \A i, j \in DOMAIN r : f[i] = f[j] => i = j
    /\ \A j \in DOMAIN r : r[j] = c[f[j]]
Picks(r, c, P, m) ==
    /\ r \in Seq(Range(c)) /\ Len(r) <= m
    /\ \E f \in [DOMAIN r -> P \intersect (1..m)] : PicksBy(f, r, c)

KeepStep(k, c, P, n) ==
    IF n = 0 THEN << >> ELSE IF n \in P THEN Append(k[n - 1], c[n]) ELSE k[n - 1]

LEMMA KeepingExists ==
    ASSUME NEW N \in Nat, NEW c, NEW P
    PROVE  \E k : k = [n \in 0..N |-> KeepStep(k, c, P, n)]
<1> DEFINE Good == {m \in 0..N : \E k : k = [n \in 0..m |-> KeepStep(k, c, P, n)]}
<1>1. 0 \in Good
  <2>1. PICK k : k = [n \in 0..0 |-> << >>]
    OBVIOUS
  <2>2. k = [n \in 0..0 |-> KeepStep(k, c, P, n)]
    BY <2>1 DEF KeepStep
  <2> QED BY <2>2
<1>2. ASSUME NEW m \in 0..N, m < N, m \in Good PROVE m + 1 \in Good
  <2>1. PICK k : k = [n \in 0..m |-> KeepStep(k, c, P, n)]
    BY <1>2
  <2>2. PICK g : g = [n \in 0..(m + 1) |-> IF n = m + 1 THEN KeepStep(k, c, P, n) ELSE k[n]]
    OBVIOUS
  <2>3. \A n \in 0..m : g[n] = k[n]
    BY <2>2
  <2>4. ASSUME NEW n \in 0..(m + 1) PROVE g[n] = KeepStep(g, c, P, n)
    <3>1. n # 0 => n - 1 \in 0..m
      OBVIOUS
    <3>2. KeepStep(g, c, P, n) = KeepStep(k, c, P, n)
      BY <2>3, <3>1 DEF KeepStep
    <3>3. g[n] = KeepStep(k, c, P, n)
      <4>1. CASE n = m + 1
        BY <2>2, <4>1
      <4>2. CASE n # m + 1
        <5>1. n \in 0..m
          BY <4>2
        <5>2. k[n] = KeepStep(k, c, P, n)
          BY <2>1, <5>1
        <5> QED BY <2>3, <5>1, <5>2
      <4> QED BY <4>1, <4>2
    <3> QED BY <3>2, <3>3
  <2>5. g = [n \in 0..(m + 1) |-> KeepStep(g, c, P, n)]
    BY <2>2, <2>4
  <2>6. m + 1 \in 0..N
    BY <1>2
  <2> QED BY <2>5, <2>6
<1>3. N \in Good
  <2> HIDE DEF Good
  <2> QED BY <1>1, <1>2, Climbing
<1> QED BY <1>3

LEMMA KeepOne ==
    ASSUME NEW c, IsCache(c), NEW P, NEW n \in 1..Len(c), NEW r, Picks(r, c, P, n - 1)
    PROVE  Picks(IF n \in P THEN Append(r, c[n]) ELSE r, c, P, n)
<1>1. /\ r \in Seq(Range(c)) /\ Len(r) \in Nat /\ Len(r) <= n - 1 /\ DOMAIN r = 1..Len(r)
      /\ c[n] \in Range(c) /\ n \in Nat
  BY DEF Picks, IsCache, Range
<1>2. PICK f \in [DOMAIN r -> P \intersect (1..(n - 1))] : PicksBy(f, r, c)
  BY DEF Picks
<1>3. CASE n \in P
  <2>1. PICK t : t = Append(r, c[n])
    OBVIOUS
  <2>2. /\ t \in Seq(Range(c)) /\ Len(t) = Len(r) + 1 /\ DOMAIN t = 1..(Len(r) + 1)
        /\ t[Len(r) + 1] = c[n] /\ \A j \in 1..Len(r) : t[j] = r[j]
    BY <1>1, <2>1
  <2>3. PICK g : g = [j \in DOMAIN t |-> IF j = Len(r) + 1 THEN n ELSE f[j]]
    OBVIOUS
  <2>4. \A j \in DOMAIN t : j = Len(r) + 1 \/ (j \in DOMAIN r /\ j # Len(r) + 1)
    BY <1>1, <2>2
  <2>5. g \in [DOMAIN t -> P \intersect (1..n)]
    <3>1. ASSUME NEW j \in DOMAIN t PROVE g[j] \in P \intersect (1..n)
      <4>1. CASE j = Len(r) + 1
        BY <1>1, <1>3, <2>3, <4>1
      <4>2. CASE j \in DOMAIN r /\ j # Len(r) + 1
        BY <1>1, <1>2, <2>3, <4>2
      <4> QED BY <2>4, <4>1, <4>2
    <3> QED BY <2>3, <3>1
  <2>6. PicksBy(g, t, c)
    <3>1. ASSUME NEW j \in DOMAIN t PROVE t[j] = c[g[j]]
      <4>1. CASE j = Len(r) + 1
        BY <2>2, <2>3, <4>1
      <4>2. CASE j \in DOMAIN r /\ j # Len(r) + 1
        BY <1>1, <1>2, <2>2, <2>3, <4>2 DEF PicksBy
      <4> QED BY <2>4, <4>1, <4>2
    <3>2. ASSUME NEW i \in DOMAIN t, NEW j \in DOMAIN t, g[i] = g[j] PROVE i = j
      <4>1. \A x \in DOMAIN r : f[x] \in 1..(n - 1) /\ f[x] # n
        BY <1>1, <1>2
      <4>2. CASE i \in DOMAIN r /\ j \in DOMAIN r /\ i # Len(r) + 1 /\ j # Len(r) + 1
        BY <1>2, <2>3, <3>2, <4>2 DEF PicksBy
      <4> QED BY <2>3, <2>4, <3>2, <4>1, <4>2
    <3> QED BY <3>1, <3>2 DEF PicksBy
  <2>7. Len(t) <= n
    BY <1>1, <2>2
  <2> QED BY <1>3, <2>1, <2>2, <2>5, <2>6, <2>7 DEF Picks
<1>4. CASE n \notin P
  <2>1. f \in [DOMAIN r -> P \intersect (1..n)] /\ Len(r) <= n
    BY <1>1, <1>2
  <2> QED BY <1>1, <1>2, <1>4, <2>1 DEF Picks
<1> QED BY <1>3, <1>4

LEMMA KeepingPicks ==
    ASSUME NEW c, IsCache(c), NEW P
    PROVE  Picks(Keeping(c, P), c, P, Len(c))
<1> DEFINE k == CHOOSE g : g = [n \in 0..Len(c) |-> KeepStep(g, c, P, n)]
           Good == {m \in 0..Len(c) : Picks(k[m], c, P, m)}
<1>1. Len(c) \in Nat
  BY DEF IsCache
<1>2. k = [n \in 0..Len(c) |-> KeepStep(k, c, P, n)]
  BY <1>1, KeepingExists
<1>3. Keeping(c, P) = k[Len(c)]
  BY DEF Keeping, KeepStep
<1> HIDE DEF k
<1>4. 0 \in Good
  <2>1. k[0] = << >>
    BY <1>1, <1>2 DEF KeepStep
  <2>2. Picks(<< >>, c, P, 0)
    <3>1. << >> \in Seq(Range(c)) /\ Len(<< >>) <= 0 /\ DOMAIN << >> = {}
      OBVIOUS
    <3>2. PICK f : f = [x \in {} |-> 1]
      OBVIOUS
    <3>3. f \in [{} -> P \intersect (1..0)]
      BY <3>2
    <3> QED BY <3>1, <3>3 DEF Picks, PicksBy
  <2> QED BY <1>1, <2>1, <2>2
<1>5. ASSUME NEW m \in 0..Len(c), m < Len(c), m \in Good PROVE m + 1 \in Good
  <2>1. PICK n \in 1..Len(c) : n = m + 1
    BY <1>1, <1>5
  <2>2. n - 1 = m /\ n # 0 /\ n \in 0..Len(c)
    BY <1>1, <2>1
  <2>3. k[n] = IF n \in P THEN Append(k[m], c[n]) ELSE k[m]
    BY <1>2, <2>2 DEF KeepStep
  <2>4. Picks(k[m], c, P, n - 1)
    BY <1>5, <2>2
  <2>5. Picks(k[n], c, P, n)
    BY <2>3, <2>4, KeepOne
  <2> QED BY <2>1, <2>2, <2>5
<1>6. Len(c) \in Good
  <2> HIDE DEF Good
  <2>1. \A m \in 0..Len(c) : m < Len(c) /\ m \in Good => m + 1 \in Good
    BY <1>5
  <2>2. \A m \in 0..Len(c) : m \in Good
    BY <1>1, <1>4, <2>1, Climbing
  <2> QED BY <1>1, <2>2
<1> QED BY <1>3, <1>6

LEMMA KeepingNothing == ASSUME NEW P PROVE Keeping(<< >>, P) = << >>
<1>1. IsCache(<< >>) /\ Len(<< >>) = 0
  BY DEF IsCache, Range
<1>2. PICK r : r = Keeping(<< >>, P)
  OBVIOUS
<1>3. r \in Seq(Range(<< >>)) /\ Len(r) <= 0
  BY <1>1, <1>2, KeepingPicks DEF Picks
<1>4. Len(r) = 0
  BY <1>3
<1> QED BY <1>2, <1>3, <1>4, EmptySeq

-----------------------------------------------------------------------------
(* Documents in memory, and what a restart finds                           *)

\* What RagEngine holds between calls, but for the cache.
IsMem(m) ==
    /\ m = [documents |-> m.documents, metadata |-> m.metadata, vectors |-> m.vectors,
            sparse |-> m.sparse, cache |-> m.cache]
    /\ IsDocs(m.documents) /\ DOMAIN m.metadata = DOMAIN m.documents
    /\ DOMAIN m.vectors \subseteq DOMAIN m.documents
    /\ m.sparse = SparseOf(m.documents)

LEMMA IndexKeepsMem ==
    ASSUME NEW m, IsMem(m), NEW d, NEW b, b.text \in Texts
    PROVE  IsMem(IndexInMemory(m, d, b))
<1> DEFINE n == IndexInMemory(m, d, b)
<1>1. /\ n.documents = Put(m.documents, d, b.text) /\ n.metadata = Put(m.metadata, d, b.meta)
      /\ n.vectors = IF b.embedding = {} THEN m.vectors
                     ELSE Put(m.vectors, d, CHOOSE v \in b.embedding : TRUE)
      /\ n.sparse = SparseAdd(m.sparse, d, b.text)
      /\ n = [documents |-> n.documents, metadata |-> n.metadata, vectors |-> n.vectors,
              sparse |-> n.sparse, cache |-> n.cache]
  BY DEF IndexInMemory
<1>2. IsDocs(m.documents) /\ m.sparse = SparseOf(m.documents)
  BY DEF IsMem
<1> HIDE DEF n
<1>3. IsDocs(n.documents) /\ DOMAIN n.documents = DOMAIN m.documents \union {d}
  BY <1>1, <1>2, PutDocs
<1>4. n.sparse = SparseOf(n.documents)
  BY <1>1, <1>2, SparseAddIs
<1>5. DOMAIN n.metadata = DOMAIN m.documents \union {d}
  BY <1>1 DEF Put, IsMem
<1>6. DOMAIN n.vectors \subseteq DOMAIN m.documents \union {d}
  BY <1>1 DEF Put, IsMem
<1>7. IsMem(n)
  BY <1>1, <1>3, <1>4, <1>5, <1>6 DEF IsMem
<1> QED BY <1>7 DEF n

LEMMA RemoveKeepsMem ==
    ASSUME NEW m, IsMem(m), NEW d
    PROVE  IsMem(RemoveFromMemory(m, d))
<1> DEFINE n == RemoveFromMemory(m, d)
<1>1. /\ n.documents = Drop(m.documents, d) /\ n.metadata = Drop(m.metadata, d)
      /\ n.vectors = Drop(m.vectors, d) /\ n.sparse = SparseRemove(m.sparse, d)
      /\ n = [documents |-> n.documents, metadata |-> n.metadata, vectors |-> n.vectors,
              sparse |-> n.sparse, cache |-> n.cache]
  BY DEF RemoveFromMemory
<1>2. IsDocs(m.documents) /\ m.sparse = SparseOf(m.documents)
  BY DEF IsMem
<1> HIDE DEF n
<1>3. IsDocs(n.documents) /\ DOMAIN n.documents = DOMAIN m.documents \ {d}
  BY <1>1, <1>2, DropDocs
<1>4. n.sparse = SparseOf(n.documents)
  BY <1>1, <1>2, SparseRemoveIs
<1>5. /\ DOMAIN n.metadata = DOMAIN m.documents \ {d}
      /\ DOMAIN n.vectors \subseteq DOMAIN m.documents \ {d}
  BY <1>1 DEF Drop, IsMem
<1>6. IsMem(n)
  BY <1>1, <1>3, <1>4, <1>5 DEF IsMem
<1> QED BY <1>6 DEF n

LEMMA NoDocs ==
    /\ IsDocs(<< >>) /\ SparseOf(<< >>) = EmptySparse /\ DOMAIN << >> = {}
<1>1. IsDocs(<< >>) /\ DOMAIN << >> = {}
  BY FS_EmptySet DEF IsDocs
<1>2. TermsOf(<< >>) = {}
  BY DEF TermsOf
<1>3. PostingsOf(<< >>) = << >>
  BY <1>2 DEF PostingsOf
<1>4. LengthsOf(<< >>) = << >>
  BY <1>1 DEF LengthsOf
<1>5. SumFunction(<< >>) = 0
  <2>1. PICK h : h = [T \in SUBSET {} |-> 0]
    OBVIOUS
  <2>2. h \in [SUBSET {} -> Int] /\ Sums(h, << >>, SUBSET {}) /\ h[{}] = 0
    BY <2>1 DEF Sums, SumStep
  <2>3. << >> \in [{} -> Int] /\ IsFiniteSet({})
    BY FS_EmptySet
  <2> QED BY <2>2, <2>3, SumIs
<1> QED BY <1>1, <1>3, <1>4, <1>5 DEF SparseOf, EmptySparse

LEMMA EmptyIsMem == IsMem(EmptyMem) /\ EmptyMem.cache = << >>
<1>1. /\ EmptyMem.documents = << >> /\ EmptyMem.metadata = << >> /\ EmptyMem.vectors = << >>
      /\ EmptyMem.sparse = EmptySparse /\ EmptyMem.cache = << >>
      /\ EmptyMem = [documents |-> EmptyMem.documents, metadata |-> EmptyMem.metadata,
                     vectors |-> EmptyMem.vectors, sparse |-> EmptyMem.sparse,
                     cache |-> EmptyMem.cache]
  BY DEF EmptyMem
<1> QED BY <1>1, NoDocs DEF IsMem

\* IndexesAgree is what SparseOf says.
LEMMA MemAgrees == IsMem(mem) => IndexesAgree
<1> SUFFICES ASSUME IsMem(mem) PROVE IndexesAgree
  OBVIOUS
<1>1. /\ mem.sparse = SparseOf(mem.documents) /\ DOMAIN mem.metadata = DOMAIN mem.documents
      /\ DOMAIN mem.vectors \subseteq DOMAIN mem.documents
  BY DEF IsMem
<1> DEFINE f == mem.documents
<1>2. /\ mem.sparse.postings = PostingsOf(f) /\ mem.sparse.lengths = LengthsOf(f)
      /\ mem.sparse.total = SumFunction(LengthsOf(f))
  BY <1>1 DEF SparseOf
<1> HIDE DEF f
<1>3. DOMAIN LengthsOf(f) = DOMAIN f /\ \A d \in DOMAIN f : LengthsOf(f)[d] = Len(f[d])
  BY DEF LengthsOf
<1>4. /\ DOMAIN PostingsOf(f) = UNION {Range(f[d]) : d \in DOMAIN f}
      /\ \A t \in DOMAIN PostingsOf(f) :
           PostingsOf(f)[t] =
             [d \in {e \in DOMAIN f : t \in Range(f[e])} |-> Occurrences(f[d], t)]
  BY DEF PostingsOf, TermsOf, Holding
<1>5. DomainsAgree
  BY <1>1, <1>2, <1>3 DEF DomainsAgree, f
<1>6. /\ DOMAIN mem.sparse.postings = UNION {Range(mem.documents[d]) : d \in DOMAIN mem.documents}
      /\ \A t \in DOMAIN mem.sparse.postings :
           mem.sparse.postings[t] =
             [d \in {e \in DOMAIN mem.documents : t \in Range(mem.documents[e])} |->
                Occurrences(mem.documents[d], t)]
  BY <1>2, <1>4 DEF f
<1>7. \A d \in DOMAIN mem.documents : mem.sparse.lengths[d] = Len(mem.documents[d])
  BY <1>2, <1>3 DEF f
<1> QED BY <1>2, <1>5, <1>6, <1>7 DEF IndexesAgree

\* The keys of the store: vectors belong to documents.
IsStore(s) ==
    /\ IsDocs(s.docs) /\ DOMAIN s.vecs \subseteq DOMAIN s.docs

\* What recover_all has made of the documents in T.
Loaded(s, T) ==
    [documents |-> [d \in T |-> s.docs[d]],
     metadata  |-> [d \in T |-> Optional(s.metas, d)],
     vectors   |-> [d \in T \intersect DOMAIN s.vecs |-> s.vecs[d]],
     sparse    |-> SparseOf([d \in T |-> s.docs[d]]),
     cache     |-> << >>]

LEMMA LoadedOne ==
    ASSUME NEW s, IsStore(s), NEW T \in SUBSET DOMAIN s.docs, NEW x \in T
    PROVE  Loaded(s, T) = IndexInMemory(Loaded(s, T \ {x}), x, LoadDocument(s, x))
<1> DEFINE f == [d \in T |-> s.docs[d]]
           g == [d \in T \ {x} |-> s.docs[d]]
           b == LoadDocument(s, x)
           m == Loaded(s, T \ {x})
<1>1. b.text = s.docs[x] /\ b.embedding = Optional(s.vecs, x) /\ b.meta = Optional(s.metas, x)
  BY DEF LoadDocument
<1>2. /\ m.documents = g /\ m.metadata = [d \in T \ {x} |-> Optional(s.metas, d)]
      /\ m.vectors = [d \in (T \ {x}) \intersect DOMAIN s.vecs |-> s.vecs[d]]
      /\ m.sparse = SparseOf(g) /\ m.cache = << >>
  BY DEF Loaded
<1>3. IsDocs(g) /\ s.docs[x] \in Texts
  <2>1. IsFiniteSet(T \ {x}) /\ s.docs \in [DOMAIN s.docs -> Texts]
    BY FS_Subset DEF IsStore, IsDocs
  <2>2. \A d \in T : s.docs[d] \in Texts
    BY <2>1
  <2> QED BY <2>1, <2>2 DEF IsDocs
<1>4. f = Put(g, x, s.docs[x])
  BY DEF Put
<1>5. SparseAdd(SparseOf(g), x, s.docs[x]) = SparseOf(f)
  BY <1>3, <1>4, SparseAddIs
<1> HIDE DEF b, m
<1>6. Put(m.documents, x, b.text) = f
  BY <1>1, <1>2, <1>4
<1>7. Put(m.metadata, x, b.meta) = [d \in T |-> Optional(s.metas, d)]
  BY <1>1, <1>2 DEF Put
<1>8. (IF b.embedding = {} THEN m.vectors ELSE Put(m.vectors, x, CHOOSE v \in b.embedding : TRUE))
        = [d \in T \intersect DOMAIN s.vecs |-> s.vecs[d]]
  <2>1. CASE x \in DOMAIN s.vecs
    <3>1. b.embedding = {s.vecs[x]}
      BY <1>1, <2>1 DEF Optional
    <3>2. (CHOOSE v \in b.embedding : TRUE) = s.vecs[x] /\ b.embedding # {}
      BY <3>1
    <3>3. Put(m.vectors, x, s.vecs[x]) = [d \in T \intersect DOMAIN s.vecs |-> s.vecs[d]]
      BY <1>2, <2>1 DEF Put
    <3> QED BY <3>2, <3>3
  <2>2. CASE x \notin DOMAIN s.vecs
    <3>1. b.embedding = {}
      BY <1>1, <2>2 DEF Optional
    <3>2. (T \ {x}) \intersect DOMAIN s.vecs = T \intersect DOMAIN s.vecs
      BY <2>2
    <3> QED BY <1>2, <3>1, <3>2
  <2> QED BY <2>1, <2>2
<1>9. Invalidated(m.cache, x) = << >>
  BY <1>2, KeepingNothing DEF Invalidated
<1>10. SparseAdd(m.sparse, x, b.text) = SparseOf(f)
  BY <1>1, <1>2, <1>5
<1>11. IndexInMemory(m, x, b) = Loaded(s, T)
  <2> HIDE DEF f
  <2>1. Loaded(s, T) = [documents |-> f, metadata |-> [d \in T |-> Optional(s.metas, d)],
                        vectors |-> [d \in T \intersect DOMAIN s.vecs |-> s.vecs[d]],
                        sparse |-> SparseOf(f), cache |-> << >>]
    BY DEF Loaded, f
  <2> QED BY <1>6, <1>7, <1>8, <1>9, <1>10, <2>1 DEF IndexInMemory
<1> QED BY <1>11 DEF m, b

LEMMA LoadedNone == ASSUME NEW s PROVE Loaded(s, {}) = EmptyMem
<1>1. /\ [d \in {} |-> s.docs[d]] = << >> /\ [d \in {} |-> Optional(s.metas, d)] = << >>
      /\ [d \in {} \intersect DOMAIN s.vecs |-> s.vecs[d]] = << >>
  OBVIOUS
<1> QED BY <1>1, NoDocs DEF Loaded, EmptyMem

\* In whatever order the documents are loaded, that is what there is in the end.
LEMMA RecoveredIs ==
    ASSUME NEW s, IsStore(s)
    PROVE  Recovered(s) = Loaded(s, DOMAIN s.docs)
<1> DEFINE S == DOMAIN s.docs
           Rule(g, T) == IF T = {} THEN EmptyMem
                         ELSE IndexInMemory(g[T \ {CHOOSE x \in T : TRUE}], CHOOSE x \in T : TRUE,
                                            LoadDocument(s, CHOOSE x \in T : TRUE))
           R == CHOOSE g : g = [T \in SUBSET S |-> Rule(g, T)]
           L == [T \in SUBSET S |-> Loaded(s, T)]
           G == {T \in SUBSET S : R[T] = Loaded(s, T)}
<1>1. Recovered(s) = R[S]
  BY DEF Recovered, FoldSet, MapThenFoldSet
<1>2. \A T \in SUBSET S : L[T] = Rule(L, T)
  <2>1. ASSUME NEW T \in SUBSET S PROVE Loaded(s, T) = Rule(L, T)
    <3>1. CASE T = {}
      BY <3>1, LoadedNone
    <3>2. CASE T # {}
      <4>1. PICK x : x = CHOOSE y \in T : TRUE
        OBVIOUS
      <4>2. x \in T /\ T \ {x} \in SUBSET S
        BY <3>2, <4>1
      <4>3. Rule(L, T) = IndexInMemory(L[T \ {x}], x, LoadDocument(s, x))
        BY <3>2, <4>1
      <4>4. L[T \ {x}] = Loaded(s, T \ {x})
        BY <4>2
      <4> HIDE DEF Rule, L
      <4> QED BY <4>2, <4>3, <4>4, LoadedOne
    <3> QED BY <3>1, <3>2
  <2> QED BY <2>1
<1>3. L = [T \in SUBSET S |-> Rule(L, T)]
  <2> HIDE DEF Rule
  <2> QED BY <1>2
<1>4. R = [T \in SUBSET S |-> Rule(R, T)]
  <2> HIDE DEF Rule, L
  <2> QED BY <1>3
<1> HIDE DEF R, L
<1>5. ASSUME NEW T \in SUBSET S, \A x \in T : T \ {x} \in G PROVE T \in G
  <2>1. CASE T = {}
    BY <1>4, <2>1, LoadedNone
  <2>2. CASE T # {}
    <3>1. PICK x : x = CHOOSE y \in T : TRUE
      OBVIOUS
    <3>2. x \in T /\ R[T] = IndexInMemory(R[T \ {x}], x, LoadDocument(s, x))
      BY <1>4, <2>2, <3>1
    <3>3. R[T \ {x}] = Loaded(s, T \ {x})
      BY <1>5, <3>2
    <3> HIDE DEF Rule
    <3> QED BY <3>2, <3>3, LoadedOne
  <2> QED BY <2>1, <2>2
<1>6. \A T \in SUBSET S : T \in G
  <2>1. \A T \in SUBSET S : (\A x \in T : T \ {x} \in G) => T \in G
    BY <1>5
  <2>2. IsFiniteSet(S)
    BY DEF IsStore, IsDocs
  <2> HIDE DEF G
  <2> QED BY <2>1, <2>2, SubsetInduction, Zenon
<1> QED BY <1>1, <1>6

-----------------------------------------------------------------------------
(* Searches                                                                *)

\* The first of those places where w is least.
LEMMA LeastBoth ==
    ASSUME NEW I \in SUBSET Nat, I # {}, NEW w \in [I -> Nat]
    PROVE  \E i \in I : \A j \in I \ {i} : w[i] < w[j] \/ (w[i] = w[j] /\ i < j)
<1> DEFINE W == {w[i] : i \in I}
<1>1. W \in SUBSET Nat /\ W # {}
  OBVIOUS
<1>2. PICK m \in W : \A x \in W : m <= x
  <2> HIDE DEF W
  <2> QED BY <1>1, LeastExists
<1>3. \A j \in I : m <= w[j]
  BY <1>2
<1> DEFINE J == {i \in I : w[i] = m}
<1>4. J \in SUBSET Nat /\ J # {}
  BY <1>2
<1>5. PICK i \in J : \A x \in J : i <= x
  <2> HIDE DEF J
  <2> QED BY <1>4, LeastExists
<1>6. i \in I /\ w[i] = m /\ m \in Nat
  BY <1>1, <1>2
<1>7. ASSUME NEW j \in I \ {i} PROVE w[i] < w[j] \/ (w[i] = w[j] /\ i < j)
  <2>1. m <= w[j] /\ w[j] \in Nat /\ i \in Nat /\ j \in Nat
    BY <1>3, <1>6
  <2>2. CASE w[j] = m
    <3>1. i <= j
      BY <1>5, <2>2
    <3> QED BY <1>6, <2>1, <2>2, <3>1
  <2>3. CASE w[j] # m
    BY <1>6, <2>1, <2>3
  <2> QED BY <2>2, <2>3
<1> QED BY <1>6, <1>7

\* A list of ids among these.
Hits(s, docs) == s \in Seq(Range(s)) /\ Range(s) \subseteq docs

LEMMA BestAreHits ==
    ASSUME NEW docs, IsFiniteSet(docs), NEW n, NEW s \in Best(docs, n)
    PROVE  Hits(s, docs)
<1>1. PICK S \in SUBSET docs : s \in SetToSeqs(S)
  BY DEF Best
<1>2. s \in [1..Cardinality(S) -> S]
  BY <1>1 DEF SetToSeqs
<1>3. Cardinality(S) \in Nat
  BY FS_Subset, FS_CardinalityType
<1>4. Range(s) \subseteq S
  BY <1>2 DEF Range
<1>5. s \in [1..Cardinality(S) -> Range(s)]
  BY <1>2 DEF Range
<1>6. s \in Seq(Range(s))
  BY <1>3, <1>5
<1> QED BY <1>4, <1>6 DEF Hits

LEMMA FirstAreHits ==
    ASSUME NEW s, NEW docs, Hits(s, docs), NEW n \in Nat
    PROVE  Hits(FirstOf(s, n), docs)
<1>1. s \in Seq(Range(s)) /\ Len(s) \in Nat /\ Range(s) \subseteq docs
  BY DEF Hits
<1>2. PICK k : k = Min({n, Len(s)})
  OBVIOUS
<1>3. k \in Nat /\ k <= Len(s)
  BY <1>1, <1>2 DEF Min
<1>4. PICK t : t = SubSeq(s, 1, k)
  OBVIOUS
<1>5. /\ t \in Seq(Range(s)) /\ Len(t) = k /\ DOMAIN t = 1..k
      /\ \A i \in 1..k : t[i] = s[i]
  BY <1>1, <1>3, <1>4
<1>6. Range(t) \subseteq docs
  BY <1>1, <1>3, <1>5 DEF Range
<1>7. t \in [1..k -> Range(t)]
  BY <1>5 DEF Range
<1>8. t \in Seq(Range(t))
  BY <1>3, <1>7
<1> QED BY <1>2, <1>4, <1>6, <1>8 DEF Hits, FirstOf

\* The documents that any index knows are documents in memory.
LEMMA MatchesAreDocs ==
    ASSUME IsMem(mem), NEW query
    PROVE  /\ SparseMatches(mem.sparse, query) \subseteq DOMAIN mem.documents
           /\ IsFiniteSet(SparseMatches(mem.sparse, query))
           /\ DOMAIN mem.vectors \subseteq DOMAIN mem.documents
           /\ IsFiniteSet(DOMAIN mem.vectors)
           /\ IsFiniteSet(DOMAIN mem.documents)
<1>1. /\ mem.sparse = SparseOf(mem.documents) /\ IsFiniteSet(DOMAIN mem.documents)
      /\ DOMAIN mem.vectors \subseteq DOMAIN mem.documents
  BY DEF IsMem, IsDocs
<1>2. mem.sparse.postings = PostingsOf(mem.documents)
  BY <1>1 DEF SparseOf
<1>3. SparseMatches(mem.sparse, query) \subseteq DOMAIN mem.documents
  <2>1. ASSUME NEW d \in SparseMatches(mem.sparse, query) PROVE d \in DOMAIN mem.documents
    <3>1. PICK t \in DOMAIN PostingsOf(mem.documents) : d \in DOMAIN PostingsOf(mem.documents)[t]
      BY <1>2, <2>1 DEF SparseMatches
    <3>2. DOMAIN PostingsOf(mem.documents)[t] = Holding(mem.documents, t)
      BY <3>1 DEF PostingsOf
    <3> QED BY <3>1, <3>2 DEF Holding
  <2> QED BY <2>1
<1> QED BY <1>1, <1>3, FS_Subset

LEMMA FusedAreHits ==
    ASSUME IsMem(mem), NEW query, NEW v, NEW fetch, NEW topK \in Nat,
           NEW hits \in FusedHits(query, v, fetch, topK)
    PROVE  Hits(hits, DOMAIN mem.documents)
<1> DEFINE M == SparseMatches(mem.sparse, query)
           V == DOMAIN mem.vectors
           D == DOMAIN mem.documents
<1>1. M \subseteq D /\ IsFiniteSet(M) /\ V \subseteq D /\ IsFiniteSet(V) /\ IsFiniteSet(D)
  BY MatchesAreDocs
<1>2. \/ \E s \in Best(M, fetch) : hits = FirstOf(s, topK)
      \/ \E s \in Best(V, fetch) : hits = FirstOf(s, topK)
      \/ \E s \in Best(M, fetch), t \in Best(V, fetch) : hits \in Best(Range(s) \union Range(t), topK)
  BY DEF FusedHits
<1> HIDE DEF M, V, D
<1>3. ASSUME NEW s \in Best(M, fetch) PROVE Hits(s, D) /\ Range(s) \subseteq D
  BY <1>1, BestAreHits DEF Hits
<1>4. ASSUME NEW s \in Best(V, fetch) PROVE Hits(s, D) /\ Range(s) \subseteq D
  BY <1>1, BestAreHits DEF Hits
<1>5. CASE \E s \in Best(M, fetch) : hits = FirstOf(s, topK)
  BY <1>3, <1>5, FirstAreHits DEF D
<1>6. CASE \E s \in Best(V, fetch) : hits = FirstOf(s, topK)
  BY <1>4, <1>6, FirstAreHits DEF D
<1>7. CASE \E s \in Best(M, fetch), t \in Best(V, fetch) :
             hits \in Best(Range(s) \union Range(t), topK)
  <2>1. PICK s \in Best(M, fetch), t \in Best(V, fetch) :
               hits \in Best(Range(s) \union Range(t), topK)
    BY <1>7
  <2>2. Range(s) \union Range(t) \subseteq D
    BY <1>3, <1>4
  <2>3. IsFiniteSet(Range(s) \union Range(t))
    BY <1>1, <2>2, FS_Subset
  <2>4. Hits(hits, Range(s) \union Range(t))
    BY <2>1, <2>3, BestAreHits
  <2> QED BY <2>2, <2>4 DEF Hits, D
<1> QED BY <1>2, <1>5, <1>6, <1>7

-----------------------------------------------------------------------------
(* The semantic cache                                                      *)

IsEntry(e) ==
    /\ e = [embedding |-> e.embedding, results |-> e.results, created |-> e.created,
            accessed |-> e.accessed, seen |-> e.seen]
    /\ e.embedding \in QueryVectors /\ e.accessed \in Nat /\ e.results \in Seq(Range(e.results))

\* The documents of a result are as they were.
Current(m, e) ==
    \A d \in Range(e.results) :
        d \in DOMAIN m.documents /\ e.seen[d] = <<m.documents[d], Optional(m.vectors, d)>>

Spread(c) ==
    \A i, j \in DOMAIN c : i # j => ~ MeetsThreshold(c[i].embedding, c[j].embedding)

CacheInv(m, c) ==
    /\ IsCache(c) /\ Len(c) <= SemanticCapacity /\ Spread(c)
    /\ \A i \in DOMAIN c : IsEntry(c[i]) /\ Current(m, c[i])

\* So is a cache with some of the entries, if they are still current.
LEMMA PickedCache ==
    ASSUME NEW m, NEW c, CacheInv(m, c), NEW P, NEW n \in Nat, n <= Len(c),
           NEW r, Picks(r, c, P, n), NEW k,
           \A i \in DOMAIN c : i \in P => Current(k, c[i])
    PROVE  CacheInv(k, r) /\ Len(r) <= n
<1>1. r \in Seq(Range(c)) /\ Len(r) <= n /\ Len(r) \in Nat /\ DOMAIN r = 1..Len(r)
  BY DEF Picks
<1>2. PICK f \in [DOMAIN r -> P \intersect (1..n)] : PicksBy(f, r, c)
  BY DEF Picks
<1>3. IsCache(c) /\ Len(c) \in Nat /\ DOMAIN c = 1..Len(c) /\ Len(c) <= SemanticCapacity /\ Spread(c)
  BY DEF CacheInv, IsCache
<1>4. \A j \in DOMAIN r : f[j] \in P /\ f[j] \in DOMAIN c /\ r[j] = c[f[j]]
  BY <1>2, <1>3 DEF PicksBy
<1>5. IsCache(r)
  <2>1. r \in [1..Len(r) -> Range(r)]
    BY <1>1 DEF Range
  <2> QED BY <1>1, <2>1 DEF IsCache
<1>6. Spread(r)
  <2>1. ASSUME NEW i \in DOMAIN r, NEW j \in DOMAIN r, i # j
        PROVE  ~ MeetsThreshold(r[i].embedding, r[j].embedding)
    <3>1. f[i] # f[j]
      BY <1>2, <2>1 DEF PicksBy
    <3> QED BY <1>3, <1>4, <3>1 DEF Spread
  <2> QED BY <2>1 DEF Spread
<1>7. \A j \in DOMAIN r : IsEntry(r[j]) /\ Current(k, r[j])
  BY <1>4 DEF CacheInv
<1>8. Len(r) <= SemanticCapacity
  BY <1>1, <1>3, CapacityIsPositive
<1> QED BY <1>1, <1>5, <1>6, <1>7, <1>8 DEF CacheInv

LEMMA InvalidatedCache ==
    ASSUME NEW m, NEW c, CacheInv(m, c), NEW d, NEW k,
           DOMAIN m.documents \ {d} \subseteq DOMAIN k.documents,
           \A e \in DOMAIN m.documents \ {d} :
              k.documents[e] = m.documents[e] /\ Optional(k.vectors, e) = Optional(m.vectors, e)
    PROVE  CacheInv(k, Invalidated(c, d))
<1> DEFINE P == {i \in DOMAIN c : ~ Lists(c[i], d)}
<1>1. IsCache(c) /\ Len(c) \in Nat /\ Len(c) <= Len(c)
  BY DEF CacheInv, IsCache
<1>2. Picks(Invalidated(c, d), c, P, Len(c))
  BY <1>1, KeepingPicks DEF Invalidated
<1>3. ASSUME NEW i \in DOMAIN c, i \in P PROVE Current(k, c[i])
  <2>1. Current(m, c[i]) /\ d \notin Range(c[i].results)
    BY <1>3 DEF CacheInv, Lists
  <2> QED BY <2>1 DEF Current
<1> HIDE DEF P
<1> QED BY <1>1, <1>2, <1>3, PickedCache

LEMMA UnexpiredCache ==
    ASSUME NEW m, NEW c, CacheInv(m, c), NEW now
    PROVE  CacheInv(m, Unexpired(c, now))
<1> DEFINE P == {i \in DOMAIN c : Ttl = 0 \/ now - c[i].created < Ttl}
<1>1. IsCache(c) /\ Len(c) \in Nat /\ Len(c) <= Len(c) /\ \A i \in DOMAIN c : Current(m, c[i])
  BY DEF CacheInv, IsCache
<1>2. Picks(Unexpired(c, now), c, P, Len(c))
  BY <1>1, KeepingPicks DEF Unexpired
<1> HIDE DEF P
<1> QED BY <1>1, <1>2, PickedCache

\* A hit: the entry is marked.
LEMMA MarkedCache ==
    ASSUME NEW m, NEW c, CacheInv(m, c), NEW i \in DOMAIN c, NEW now \in Nat
    PROVE  CacheInv(m, [c EXCEPT ![i].accessed = now])
<1>1. PICK e : e = [c[i] EXCEPT !.accessed = now]
  OBVIOUS
<1>2. PICK k : k = [c EXCEPT ![i] = e]
  OBVIOUS
<1>3. k = [c EXCEPT ![i].accessed = now]
  BY <1>1, <1>2
<1>4. /\ IsCache(c) /\ Len(c) \in Nat /\ DOMAIN c = 1..Len(c) /\ Len(c) <= SemanticCapacity
      /\ Spread(c) /\ \A j \in DOMAIN c : IsEntry(c[j]) /\ Current(m, c[j])
      /\ c \in [1..Len(c) -> Range(c)]
  BY DEF CacheInv, IsCache
<1>5. /\ e.embedding = c[i].embedding /\ e.results = c[i].results /\ e.created = c[i].created
      /\ e.accessed = now /\ e.seen = c[i].seen
      /\ e = [embedding |-> e.embedding, results |-> e.results, created |-> e.created,
              accessed |-> e.accessed, seen |-> e.seen]
  <2>1. PICK a, b, t, x, s : c[i] = [embedding |-> a, results |-> b, created |-> t,
                                     accessed |-> x, seen |-> s]
    BY <1>4 DEF IsEntry
  <2>2. e = [embedding |-> a, results |-> b, created |-> t, accessed |-> now, seen |-> s]
    BY <1>1, <2>1
  <2> QED BY <2>1, <2>2
<1>6. IsEntry(e) /\ Current(m, e)
  BY <1>4, <1>5 DEF IsEntry, Current
<1>7. DOMAIN k = 1..Len(c) /\ k[i] = e /\ \A j \in DOMAIN c : j # i => k[j] = c[j]
  BY <1>2, <1>4
<1>8. \A j \in DOMAIN k : k[j].embedding = c[j].embedding /\ IsEntry(k[j]) /\ Current(m, k[j])
  BY <1>4, <1>5, <1>6, <1>7
<1>9. IsCache(k) /\ Len(k) = Len(c)
  <2>1. k \in [1..Len(c) -> Range(k)]
    <3>1. \A j \in 1..Len(c) : k[j] \in Range(k)
      BY <1>7 DEF Range
    <3>2. k = [j \in 1..Len(c) |-> k[j]]
      BY <1>2, <1>4
    <3> QED BY <3>1, <3>2
  <2> QED BY <1>4, <2>1 DEF IsCache
<1>10. Spread(k)
  BY <1>4, <1>7, <1>8 DEF Spread
<1>11. CacheInv(m, k)
  BY <1>4, <1>8, <1>9, <1>10 DEF CacheInv
<1> QED BY <1>3, <1>11

\* Without one of its entries, whose place the last one takes.
LEMMA SwapRemovedCache ==
    ASSUME NEW m, NEW c, CacheInv(m, c), NEW i \in DOMAIN c
    PROVE  CacheInv(m, SwapRemoved(c, i)) /\ Len(SwapRemoved(c, i)) <= Len(c) - 1
<1>1. /\ IsCache(c) /\ Len(c) \in Nat /\ DOMAIN c = 1..Len(c) /\ c \in [1..Len(c) -> Range(c)]
      /\ \A j \in DOMAIN c : Current(m, c[j])
  BY DEF CacheInv, IsCache
<1>2. PICK n \in Nat : n = Len(c) - 1
  <2>1. PICK l \in Nat : l = Len(c) /\ DOMAIN c = 1..l
    BY <1>1
  <2>2. l - 1 \in Nat
    BY <2>1
  <2> QED BY <2>1, <2>2
<1>3. PICK r : r = SwapRemoved(c, i)
  OBVIOUS
<1>4. r = [j \in 1..n |-> IF j = i THEN c[Len(c)] ELSE c[j]]
  BY <1>2, <1>3 DEF SwapRemoved, Last
<1>5. \A j \in 1..n : j \in DOMAIN c /\ j # Len(c)
  <2>1. DOMAIN c = 1..(n + 1) /\ Len(c) = n + 1
    BY <1>1, <1>2
  <2> QED BY <2>1
<1>6. Len(c) \in DOMAIN c
  BY <1>1
<1>7. r \in [1..n -> Range(c)]
  BY <1>4, <1>5, <1>6 DEF Range
<1>8. r \in Seq(Range(c)) /\ Len(r) = n /\ DOMAIN r = 1..n
  BY <1>7
<1> DEFINE P == DOMAIN c
<1>9. PICK f : f = [j \in 1..n |-> IF j = i THEN Len(c) ELSE j]
  OBVIOUS
<1>10. PicksBy(f, r, c)
  BY <1>4, <1>5, <1>8, <1>9 DEF PicksBy
<1>11. f \in [DOMAIN r -> P \intersect (1..Len(c))]
  BY <1>1, <1>5, <1>6, <1>8, <1>9
<1>12. Len(r) <= Len(c)
  BY <1>1, <1>2, <1>8
<1>13. Picks(r, c, P, Len(c))
  BY <1>8, <1>10, <1>11, <1>12 DEF Picks
<1>14. CacheInv(m, r)
  <2>1. Len(c) <= Len(c)
    BY <1>1
  <2> QED BY <1>1, <1>13, <2>1, PickedCache
<1> QED BY <1>1, <1>2, <1>3, <1>8, <1>14

LEMMA LeastRecentIsPlace ==
    ASSUME NEW m, NEW c, CacheInv(m, c), c # << >>
    PROVE  LeastRecent(c) \in DOMAIN c
<1>1. /\ Len(c) \in Nat /\ DOMAIN c = 1..Len(c) /\ \A i \in DOMAIN c : c[i].accessed \in Nat
  BY DEF CacheInv, IsCache, IsEntry
<1>2. DOMAIN c # {}
  BY DEF CacheInv, IsCache
<1>3. PICK w : w = [i \in DOMAIN c |-> c[i].accessed]
  OBVIOUS
<1>4. w \in [DOMAIN c -> Nat] /\ DOMAIN c \in SUBSET Nat
  BY <1>1, <1>3
<1>5. \E i \in DOMAIN c : \A j \in DOMAIN c \ {i} : w[i] < w[j] \/ (w[i] = w[j] /\ i < j)
  BY <1>2, <1>4, LeastBoth
<1>6. \E i \in DOMAIN c : \A j \in DOMAIN c \ {i} :
         c[i].accessed < c[j].accessed \/ (c[i].accessed = c[j].accessed /\ i < j)
  BY <1>3, <1>5
<1> QED BY <1>6 DEF LeastRecent

LEMMA SimilarityIsMutual ==
    ASSUME NEW a \in Int, NEW b \in Int
    PROVE  /\ Similarity(a, b) \in Int /\ Similarity(a, b) <= 0
           /\ MeetsThreshold(a, b) <=> MeetsThreshold(b, a)
BY RagOptions DEF Similarity, MeetsThreshold

\* If nothing is the best match then nothing meets the threshold.
LEMMA NothingNear ==
    ASSUME NEW m, NEW c, CacheInv(m, c), NEW v \in QueryVectors, BestMatch(c, v) = {}
    PROVE  \A i \in DOMAIN c : /\ ~ MeetsThreshold(c[i].embedding, v)
                               /\ ~ MeetsThreshold(v, c[i].embedding)
<1>1. /\ Len(c) \in Nat /\ DOMAIN c = 1..Len(c) /\ v \in Int
      /\ \A i \in DOMAIN c : c[i].embedding \in Int
  <2>1. Len(c) \in Nat /\ DOMAIN c = 1..Len(c)
    BY DEF CacheInv, IsCache
  <2>2. \A i \in DOMAIN c : c[i].embedding \in QueryVectors
    BY DEF CacheInv, IsEntry
  <2> QED BY <2>1, <2>2, RagOptions
<1> DEFINE near == {i \in DOMAIN c : MeetsThreshold(c[i].embedding, v)}
<1>2. ASSUME near # {} PROVE FALSE
  <2>1. PICK w : w = [i \in near |-> - Similarity(c[i].embedding, v)]
    OBVIOUS
  <2>2. ASSUME NEW i \in near PROVE w[i] \in Nat /\ Similarity(c[i].embedding, v) = - w[i]
    <3>1. c[i].embedding \in Int
      BY <1>1
    <3>2. PICK s \in Int : s = Similarity(c[i].embedding, v) /\ s <= 0
      BY <1>1, <3>1, SimilarityIsMutual
    <3>3. w[i] = - s
      BY <2>1, <3>2
    <3> QED BY <3>2, <3>3
  <2>3. near \in SUBSET Nat
    BY <1>1
  <2>4. w \in [near -> Nat]
    BY <2>1, <2>2
  <2>5. PICK i \in near : \A j \in near \ {i} : w[i] < w[j] \/ (w[i] = w[j] /\ i < j)
    <3> HIDE DEF near
    <3> QED BY <1>2, <2>3, <2>4, LeastBoth
  <2>6. ASSUME NEW j \in near \ {i}
        PROVE  \/ Similarity(c[i].embedding, v) > Similarity(c[j].embedding, v)
               \/ Similarity(c[i].embedding, v) = Similarity(c[j].embedding, v) /\ i < j
    <3>1. /\ w[i] \in Nat /\ Similarity(c[i].embedding, v) = - w[i]
          /\ w[j] \in Nat /\ Similarity(c[j].embedding, v) = - w[j]
      BY <2>2
    <3>2. w[i] < w[j] \/ (w[i] = w[j] /\ i < j)
      BY <2>5
    <3> HIDE DEF near
    <3> QED BY <3>1, <3>2
  <2>7. i \in BestMatch(c, v)
    BY <2>5, <2>6 DEF BestMatch
  <2> QED BY <2>7
<1>3. ASSUME NEW i \in DOMAIN c
      PROVE  ~ MeetsThreshold(c[i].embedding, v) /\ ~ MeetsThreshold(v, c[i].embedding)
  <2>1. ~ MeetsThreshold(c[i].embedding, v)
    BY <1>2
  <2>2. c[i].embedding \in Int
    BY <1>1
  <2> QED BY <1>1, <2>1, <2>2, SimilarityIsMutual
<1> QED BY <1>3

\* A miss: what was found is put into the cache.
LEMMA InsertedCache ==
    ASSUME NEW m, NEW c, CacheInv(m, c), NEW e, IsEntry(e), Current(m, e),
           BestMatch(c, e.embedding) = {}
    PROVE  CacheInv(m, CacheInserted(c, e))
<1>1. \A i \in DOMAIN c : /\ ~ MeetsThreshold(c[i].embedding, e.embedding)
                          /\ ~ MeetsThreshold(e.embedding, c[i].embedding)
  BY NothingNear DEF IsEntry
<1>2. Len(c) \in Nat /\ Len(c) <= SemanticCapacity /\ SemanticCapacity \in Nat \ {0} /\ DOMAIN c = 1..Len(c)
  BY CapacityIsPositive DEF CacheInv, IsCache
<1>3. PICK r : r = IF Len(c) >= SemanticCapacity THEN SwapRemoved(c, LeastRecent(c)) ELSE c
  OBVIOUS
<1>4. /\ CacheInv(m, r) /\ Len(r) <= SemanticCapacity - 1
      /\ \A j \in DOMAIN r : \E i \in DOMAIN c : r[j] = c[i]
  <2>1. CASE Len(c) >= SemanticCapacity
    <3>1. c # << >>
      BY <1>2, <2>1
    <3>2. LeastRecent(c) \in DOMAIN c
      BY <3>1, LeastRecentIsPlace
    <3>3. CacheInv(m, r) /\ Len(r) <= Len(c) - 1
      BY <1>3, <2>1, <3>2, SwapRemovedCache
    <3>4. r = [j \in 1..(Len(c) - 1) |-> IF j = LeastRecent(c) THEN c[Len(c)] ELSE c[j]]
      BY <1>3, <2>1 DEF SwapRemoved, Last
    <3>5. \A j \in DOMAIN r : \E i \in DOMAIN c : r[j] = c[i]
      BY <1>2, <2>1, <3>4
    <3>6. Len(r) \in Nat
      BY <3>3 DEF CacheInv, IsCache
    <3> QED BY <1>2, <3>3, <3>5, <3>6
  <2>2. CASE ~ (Len(c) >= SemanticCapacity)
    BY <1>2, <1>3, <2>2
  <2> QED BY <2>1, <2>2
<1>5. /\ r \in Seq(Range(r)) /\ Len(r) \in Nat /\ DOMAIN r = 1..Len(r) /\ Spread(r)
      /\ \A j \in DOMAIN r : IsEntry(r[j]) /\ Current(m, r[j])
  BY <1>4 DEF CacheInv, IsCache
<1>6. PICK k : k = Append(r, e)
  OBVIOUS
<1>7. /\ Len(k) = Len(r) + 1 /\ DOMAIN k = 1..(Len(r) + 1) /\ k[Len(r) + 1] = e
      /\ \A j \in 1..Len(r) : k[j] = r[j]
  BY <1>5, <1>6
<1>8. \A j \in DOMAIN k : (j = Len(r) + 1 /\ k[j] = e) \/ (j \in DOMAIN r /\ k[j] = r[j])
  BY <1>5, <1>7
<1>9. k \in Seq(Range(k))
  <2>1. k \in Seq(Range(r) \union {e})
    BY <1>5, <1>6
  <2>2. k \in [1..Len(k) -> Range(k)]
    BY <2>1 DEF Range
  <2>3. Len(k) \in Nat
    BY <1>5, <1>7
  <2> QED BY <2>2, <2>3
<1>10. \A j \in DOMAIN k : IsEntry(k[j]) /\ Current(m, k[j])
  BY <1>5, <1>8
<1>11. Spread(k)
  <2>1. ASSUME NEW i \in DOMAIN k, NEW j \in DOMAIN k, i # j
        PROVE  ~ MeetsThreshold(k[i].embedding, k[j].embedding)
    <3>1. CASE i \in DOMAIN r /\ k[i] = r[i] /\ j \in DOMAIN r /\ k[j] = r[j]
      BY <1>5, <2>1, <3>1 DEF Spread
    <3>2. CASE k[i] = e /\ j \in DOMAIN r /\ k[j] = r[j]
      BY <1>1, <1>4, <3>2
    <3>3. CASE k[j] = e /\ i \in DOMAIN r /\ k[i] = r[i]
      BY <1>1, <1>4, <3>3
    <3> QED BY <1>8, <2>1, <3>1, <3>2, <3>3
  <2> QED BY <2>1 DEF Spread
<1>12. Len(k) <= SemanticCapacity
  BY <1>2, <1>4, <1>5, <1>7
<1>13. CacheInv(m, k)
  BY <1>9, <1>10, <1>11, <1>12 DEF CacheInv, IsCache
<1> QED BY <1>3, <1>6, <1>13 DEF CacheInserted

-----------------------------------------------------------------------------
(* Memory and store                                                        *)

LEMMA OptionalPut ==
    ASSUME NEW f, NEW k, NEW v, NEW x
    PROVE  Optional(Put(f, k, v), x) = IF x = k THEN {v} ELSE Optional(f, x)
BY DEF Optional, Put

LEMMA OptionalDrop ==
    ASSUME NEW f, NEW k, NEW x
    PROVE  Optional(Drop(f, k), x) = IF x = k THEN {} ELSE Optional(f, x)
BY DEF Optional, Drop

\* A restart would find d as it is in memory.
Agree(m, s, d) ==
    /\ Optional(s.docs, d) = Optional(m.documents, d)
    /\ Optional(s.vecs, d) = Optional(m.vectors, d)
    /\ d \in DOMAIN m.documents => m.metadata[d] \in {{}, Optional(s.metas, d)}

\* What a call does to one of the documents, in memory and in the store.
MemSame(m, n, x) ==
    /\ Optional(n.documents, x) = Optional(m.documents, x)
    /\ Optional(n.vectors, x) = Optional(m.vectors, x)
    /\ x \in DOMAIN n.documents => x \in DOMAIN m.documents /\ n.metadata[x] = m.metadata[x]
StoreSame(s, t, x) ==
    /\ Optional(t.docs, x) = Optional(s.docs, x) /\ Optional(t.vecs, x) = Optional(s.vecs, x)
    /\ Optional(t.metas, x) = Optional(s.metas, x)

LEMMA SameAgree ==
    ASSUME NEW m, NEW n, NEW s, NEW t, NEW x, Agree(m, s, x), MemSame(m, n, x), StoreSame(s, t, x)
    PROVE  Agree(n, t, x)
BY DEF Agree, MemSame, StoreSame

LEMMA StoreStays == ASSUME NEW s, NEW x PROVE StoreSame(s, s, x)
BY DEF StoreSame

LEMMA IndexElsewhere ==
    ASSUME NEW m, NEW d, NEW b, NEW x, x # d, IsMem(m)
    PROVE  MemSame(m, IndexInMemory(m, d, b), x)
<1> DEFINE n == IndexInMemory(m, d, b)
<1>1. /\ n.documents = Put(m.documents, d, b.text) /\ n.metadata = Put(m.metadata, d, b.meta)
      /\ n.vectors = IF b.embedding = {} THEN m.vectors
                     ELSE Put(m.vectors, d, CHOOSE v \in b.embedding : TRUE)
  BY DEF IndexInMemory
<1> HIDE DEF n
<1>2. /\ Optional(n.documents, x) = Optional(m.documents, x)
      /\ Optional(n.vectors, x) = Optional(m.vectors, x)
  BY <1>1, OptionalPut
<1>3. x \in DOMAIN n.documents => x \in DOMAIN m.documents /\ n.metadata[x] = m.metadata[x]
  BY <1>1 DEF Put, IsMem
<1> QED BY <1>2, <1>3 DEF MemSame, n

LEMMA RemoveElsewhere ==
    ASSUME NEW m, NEW d, NEW x, x # d, IsMem(m)
    PROVE  MemSame(m, RemoveFromMemory(m, d), x)
<1> DEFINE n == RemoveFromMemory(m, d)
<1>1. /\ n.documents = Drop(m.documents, d) /\ n.metadata = Drop(m.metadata, d)
      /\ n.vectors = Drop(m.vectors, d)
  BY DEF RemoveFromMemory
<1> HIDE DEF n
<1>2. /\ Optional(n.documents, x) = Optional(m.documents, x)
      /\ Optional(n.vectors, x) = Optional(m.vectors, x)
  BY <1>1, OptionalDrop
<1>3. x \in DOMAIN n.documents => x \in DOMAIN m.documents /\ n.metadata[x] = m.metadata[x]
  BY <1>1 DEF Drop, IsMem
<1> QED BY <1>2, <1>3 DEF MemSame, n

LEMMA StageElsewhere ==
    ASSUME NEW s, NEW d, NEW b, NEW x, x # d
    PROVE  StoreSame(s, StageDocumentPut(s, d, b), x)
<1> DEFINE t == StageDocumentPut(s, d, b)
<1>1. /\ t.docs = Put(s.docs, d, b.text)
      /\ t.vecs = IF b.embedding = {} THEN s.vecs ELSE Put(s.vecs, d, CHOOSE v \in b.embedding : TRUE)
      /\ t.metas = IF b.meta = {} THEN s.metas ELSE Put(s.metas, d, CHOOSE y \in b.meta : TRUE)
  BY DEF StageDocumentPut
<1> HIDE DEF t
<1>2. StoreSame(s, t, x)
  BY <1>1, OptionalPut DEF StoreSame
<1> QED BY <1>2 DEF t

LEMMA DeleteElsewhere ==
    ASSUME NEW s, NEW d, NEW x, x # d
    PROVE  StoreSame(s, DeleteFromStore(s, d), x)
<1> DEFINE t == DeleteFromStore(s, d)
<1>1. \/ t = s
      \/ t.docs = Drop(s.docs, d) /\ t.vecs = Drop(s.vecs, d) /\ t.metas = Drop(s.metas, d)
  BY DEF DeleteFromStore
<1> HIDE DEF t
<1>2. StoreSame(s, t, x)
  BY <1>1, OptionalDrop DEF StoreSame
<1> QED BY <1>2 DEF t

\* Put in memory and in the store, a document is the same in both.
LEMMA PutAgrees ==
    ASSUME NEW m, NEW s, NEW d, NEW b \in Bodies, Agree(m, s, d)
    PROVE  Agree(IndexInMemory(m, d, b), StageDocumentPut(s, d, b), d)
<1> DEFINE n == IndexInMemory(m, d, b)
           t == StageDocumentPut(s, d, b)
<1>1. /\ n.documents = Put(m.documents, d, b.text) /\ n.metadata = Put(m.metadata, d, b.meta)
      /\ n.vectors = IF b.embedding = {} THEN m.vectors
                     ELSE Put(m.vectors, d, CHOOSE v \in b.embedding : TRUE)
  BY DEF IndexInMemory
<1>2. /\ t.docs = Put(s.docs, d, b.text)
      /\ t.vecs = IF b.embedding = {} THEN s.vecs ELSE Put(s.vecs, d, CHOOSE v \in b.embedding : TRUE)
      /\ t.metas = IF b.meta = {} THEN s.metas ELSE Put(s.metas, d, CHOOSE y \in b.meta : TRUE)
  BY DEF StageDocumentPut
<1> HIDE DEF n, t
<1>3. Optional(t.docs, d) = Optional(n.documents, d)
  BY <1>1, <1>2, OptionalPut
<1>4. Optional(t.vecs, d) = Optional(n.vectors, d)
  <2>1. CASE b.embedding = {}
    BY <1>1, <1>2, <2>1 DEF Agree
  <2>2. CASE b.embedding # {}
    <3>1. PICK v : v = CHOOSE w \in b.embedding : TRUE
      OBVIOUS
    <3>2. t.vecs = Put(s.vecs, d, v) /\ n.vectors = Put(m.vectors, d, v)
      BY <1>1, <1>2, <2>2, <3>1
    <3> QED BY <3>2, OptionalPut
  <2> QED BY <2>1, <2>2
<1>5. n.metadata[d] = b.meta
  BY <1>1 DEF Put
<1>6. CASE b.meta = {}
  BY <1>3, <1>4, <1>5, <1>6 DEF Agree, n, t
<1>7. CASE b.meta # {}
  <2>1. PICK x : x = CHOOSE y \in b.meta : TRUE
    OBVIOUS
  <2>2. b.meta = {x}
    BY <1>7, <2>1, BodiesAreDocuments
  <2>3. t.metas = Put(s.metas, d, x)
    BY <1>2, <1>7, <2>1
  <2>4. Optional(t.metas, d) = b.meta
    BY <2>2, <2>3, OptionalPut
  <2> QED BY <1>3, <1>4, <1>5, <2>4 DEF Agree, n, t
<1> QED BY <1>6, <1>7

\* So it is deleted from both.
LEMMA DeleteAgrees ==
    ASSUME NEW m, NEW s, IsStore(s), NEW d
    PROVE  Agree(RemoveFromMemory(m, d), DeleteFromStore(s, d), d)
<1> DEFINE n == RemoveFromMemory(m, d)
           t == DeleteFromStore(s, d)
<1>1. n.documents = Drop(m.documents, d) /\ n.vectors = Drop(m.vectors, d)
  BY DEF RemoveFromMemory
<1>2. /\ d \notin DOMAIN s.docs => t = s
      /\ d \in DOMAIN s.docs => t.docs = Drop(s.docs, d) /\ t.vecs = Drop(s.vecs, d)
  BY DEF DeleteFromStore
<1> HIDE DEF n, t
<1>3. /\ Optional(n.documents, d) = {} /\ Optional(n.vectors, d) = {}
      /\ d \notin DOMAIN n.documents
  BY <1>1, OptionalDrop DEF Drop
<1>4. Optional(t.docs, d) = {} /\ Optional(t.vecs, d) = {}
  <2>1. CASE d \in DOMAIN s.docs
    BY <1>2, <2>1, OptionalDrop
  <2>2. CASE d \notin DOMAIN s.docs
    BY <1>2, <2>2 DEF Optional, IsStore
  <2> QED BY <2>1, <2>2
<1> QED BY <1>3, <1>4 DEF Agree, n, t

\* A batch of one document keeps the store in order.
LEMMA StageKeepsStore ==
    ASSUME NEW s, IsStore(s), NEW d, NEW b, b.text \in Texts
    PROVE  IsStore(StageDocumentPut(s, d, b))
<1> DEFINE t == StageDocumentPut(s, d, b)
<1>1. /\ t.docs = Put(s.docs, d, b.text)
      /\ t.vecs = IF b.embedding = {} THEN s.vecs ELSE Put(s.vecs, d, CHOOSE v \in b.embedding : TRUE)
  BY DEF StageDocumentPut
<1> HIDE DEF t
<1>2. IsDocs(t.docs) /\ DOMAIN t.docs = DOMAIN s.docs \union {d}
  BY <1>1, PutDocs DEF IsStore
<1>3. DOMAIN t.vecs \subseteq DOMAIN s.docs \union {d}
  BY <1>1 DEF IsStore, Put
<1> QED BY <1>2, <1>3 DEF IsStore, t

LEMMA DeleteKeepsStore ==
    ASSUME NEW s, IsStore(s), NEW d
    PROVE  IsStore(DeleteFromStore(s, d))
<1> DEFINE t == DeleteFromStore(s, d)
<1>1. t = s \/ (t.docs = Drop(s.docs, d) /\ t.vecs = Drop(s.vecs, d))
  BY DEF DeleteFromStore
<1> HIDE DEF t
<1>2. CASE t.docs = Drop(s.docs, d) /\ t.vecs = Drop(s.vecs, d)
  <2>1. IsDocs(t.docs) /\ DOMAIN t.docs = DOMAIN s.docs \ {d}
    <3>1. IsDocs(s.docs)
      BY DEF IsStore
    <3>2. IsDocs(Drop(s.docs, d)) /\ DOMAIN Drop(s.docs, d) = DOMAIN s.docs \ {d}
      BY <3>1, DropDocs, Zenon
    <3> QED BY <1>2, <3>2
  <2>2. DOMAIN t.vecs \subseteq DOMAIN s.docs \ {d}
    BY <1>2 DEF IsStore, Drop
  <2> QED BY <2>1, <2>2 DEF IsStore, t
<1> QED BY <1>1, <1>2 DEF t

\* What a restart has loaded is what is stored.
LEMMA RestartMem ==
    ASSUME NEW s, IsStore(s)
    PROVE  /\ IsMem(Recovered(s)) /\ Recovered(s).cache = << >>
           /\ \A d : Agree(Recovered(s), s, d)
           /\ \A d \in DOMAIN s.docs : Recovered(s).metadata[d] = Optional(s.metas, d)
           /\ Recovered(s).documents = s.docs
<1> DEFINE n == Recovered(s)
           D == DOMAIN s.docs
<1>1. n = Loaded(s, D)
  BY RecoveredIs
<1>2. /\ n.documents = [d \in D |-> s.docs[d]]
      /\ n.metadata = [d \in D |-> Optional(s.metas, d)]
      /\ n.vectors = [d \in D \intersect DOMAIN s.vecs |-> s.vecs[d]]
      /\ n.sparse = SparseOf([d \in D |-> s.docs[d]]) /\ n.cache = << >>
      /\ n = [documents |-> n.documents, metadata |-> n.metadata, vectors |-> n.vectors,
              sparse |-> n.sparse, cache |-> n.cache]
  BY <1>1 DEF Loaded
<1> HIDE DEF n
<1>3. IsDocs(s.docs) /\ [d \in D |-> s.docs[d]] = s.docs /\ DOMAIN s.vecs \subseteq D
  BY DEF IsStore, IsDocs
<1>4. n.documents = s.docs
  BY <1>2, <1>3
<1>5. IsMem(n)
  BY <1>2, <1>3, <1>4 DEF IsMem
<1>6. ASSUME NEW d PROVE Agree(n, s, d)
  <2>1. Optional(n.vectors, d) = Optional(s.vecs, d)
    <3>1. D \intersect DOMAIN s.vecs = DOMAIN s.vecs
      BY <1>3
    <3>2. n.vectors = [x \in DOMAIN s.vecs |-> s.vecs[x]]
      BY <1>2, <3>1
    <3>3. DOMAIN n.vectors = DOMAIN s.vecs /\ \A x \in DOMAIN s.vecs : n.vectors[x] = s.vecs[x]
      BY <3>2
    <3> QED BY <3>3 DEF Optional
  <2>2. d \in D => n.metadata[d] = Optional(s.metas, d)
    BY <1>2
  <2> QED BY <1>4, <2>1, <2>2 DEF Agree
<1>7. \A d \in D : n.metadata[d] = Optional(s.metas, d)
  BY <1>2
<1> QED BY <1>2, <1>4, <1>5, <1>6, <1>7 DEF n

-----------------------------------------------------------------------------
(* The calls                                                               *)

RagInv ==
    /\ IsMem(mem) /\ IsStore(stored) /\ clock \in Nat
    /\ CacheInv(mem, mem.cache) /\ Range(answer) \subseteq DOMAIN mem.documents
    /\ \A d : d \notin failed => Agree(mem, stored, d)

LEMMA NoAnswer == Range(<< >>) = {}
BY DEF Range

LEMMA BodiesHaveTexts == \A b \in Bodies : b.text \in Texts
BY DEF Texts

LEMMA EmptyCache == ASSUME NEW m PROVE CacheInv(m, << >>)
<1>1. IsCache(<< >>) /\ Len(<< >>) = 0 /\ DOMAIN << >> = {}
  BY DEF IsCache, Range
<1> QED BY <1>1, CapacityIsPositive DEF CacheInv, Spread

\* Putting a document invalidates the results that list it.
LEMMA IndexKeepsCache ==
    ASSUME NEW m, IsMem(m), CacheInv(m, m.cache), NEW d, NEW b
    PROVE  CacheInv(IndexInMemory(m, d, b), IndexInMemory(m, d, b).cache)
<1> DEFINE n == IndexInMemory(m, d, b)
<1>1. n.documents = Put(m.documents, d, b.text) /\ n.cache = Invalidated(m.cache, d)
  BY DEF IndexInMemory
<1>2. \A e : e # d => MemSame(m, n, e)
  BY IndexElsewhere
<1> HIDE DEF n
<1>3. DOMAIN m.documents \ {d} \subseteq DOMAIN n.documents
  BY <1>1 DEF Put
<1>4. ASSUME NEW e \in DOMAIN m.documents \ {d}
      PROVE  /\ n.documents[e] = m.documents[e]
             /\ Optional(n.vectors, e) = Optional(m.vectors, e)
  BY <1>1, <1>2 DEF Put, MemSame
<1> QED BY <1>1, <1>3, <1>4, InvalidatedCache DEF n

LEMMA RemoveKeepsCache ==
    ASSUME NEW m, IsMem(m), CacheInv(m, m.cache), NEW d
    PROVE  CacheInv(RemoveFromMemory(m, d), RemoveFromMemory(m, d).cache)
<1> DEFINE n == RemoveFromMemory(m, d)
<1>1. n.documents = Drop(m.documents, d) /\ n.cache = Invalidated(m.cache, d)
  BY DEF RemoveFromMemory
<1>2. \A e : e # d => MemSame(m, n, e)
  BY RemoveElsewhere
<1> HIDE DEF n
<1>3. DOMAIN m.documents \ {d} \subseteq DOMAIN n.documents
  BY <1>1 DEF Drop
<1>4. ASSUME NEW e \in DOMAIN m.documents \ {d}
      PROVE  /\ n.documents[e] = m.documents[e]
             /\ Optional(n.vectors, e) = Optional(m.vectors, e)
  BY <1>1, <1>2 DEF Drop, MemSame
<1> QED BY <1>1, <1>3, <1>4, InvalidatedCache DEF n

LEMMA RagInitInv == RagInit => RagInv
<1> SUFFICES ASSUME RagInit PROVE RagInv
  OBVIOUS
<1>1. mem = EmptyMem /\ stored = EmptyStore /\ clock = 0 /\ answer = << >>
  BY DEF RagInit
<1>2. IsMem(mem) /\ mem.cache = << >>
  BY <1>1, EmptyIsMem
<1>3. stored.docs = << >> /\ stored.vecs = << >> /\ stored.metas = << >>
  BY <1>1 DEF EmptyStore
<1>4. IsStore(stored)
  BY <1>3, NoDocs DEF IsStore
<1>5. mem.documents = << >> /\ mem.vectors = << >>
  BY <1>1 DEF EmptyMem
<1>6. \A d : Agree(mem, stored, d)
  BY <1>3, <1>5, NoDocs DEF Agree
<1> QED BY <1>1, <1>2, <1>4, <1>6, NoAnswer, EmptyCache DEF RagInv

\* One document, put in memory, and in the store or not.
LEMMA OnePut ==
    ASSUME NEW m, IsMem(m), CacheInv(m, m.cache), NEW s, IsStore(s), NEW d, NEW b \in Bodies
    PROVE  /\ IsMem(IndexInMemory(m, d, b)) /\ IsStore(StageDocumentPut(s, d, b))
           /\ CacheInv(IndexInMemory(m, d, b), IndexInMemory(m, d, b).cache)
           /\ \A x : Agree(m, s, x) =>
                       /\ Agree(IndexInMemory(m, d, b), StageDocumentPut(s, d, b), x)
                       /\ x # d => /\ Agree(IndexInMemory(m, d, b), s, x)
                                   /\ Agree(m, StageDocumentPut(s, d, b), x)
<1>1. IsMem(IndexInMemory(m, d, b)) /\ IsStore(StageDocumentPut(s, d, b))
  BY BodiesHaveTexts, IndexKeepsMem, StageKeepsStore
<1>2. CacheInv(IndexInMemory(m, d, b), IndexInMemory(m, d, b).cache)
  BY IndexKeepsCache
<1>3. ASSUME NEW x, Agree(m, s, x)
      PROVE  /\ Agree(IndexInMemory(m, d, b), StageDocumentPut(s, d, b), x)
             /\ x # d => /\ Agree(IndexInMemory(m, d, b), s, x)
                         /\ Agree(m, StageDocumentPut(s, d, b), x)
  <2>1. CASE x = d
    BY <1>3, <2>1, PutAgrees
  <2>2. CASE x # d
    <3>1. MemSame(m, IndexInMemory(m, d, b), x) /\ StoreSame(s, StageDocumentPut(s, d, b), x)
      BY <2>2, IndexElsewhere, StageElsewhere
    <3>2. MemSame(m, m, x) /\ StoreSame(s, s, x)
      BY DEF MemSame, StoreSame
    <3> QED BY <1>3, <3>1, <3>2, SameAgree
  <2> QED BY <2>1, <2>2
<1> QED BY <1>1, <1>2, <1>3

LEMMA AddInv ==
    ASSUME RagInv, NEW d \in DocIds, NEW b \in Bodies, AddDocument(d, b)
    PROVE  RagInv'
<1>1. answer' = << >> /\ clock' = clock
  BY DEF AddDocument
<1>2. CASE DimensionFits(b)
  <2>1. /\ mem' = IndexInMemory(mem, d, b)
        /\ \/ stored' = StageDocumentPut(stored, d, b) /\ failed' = failed
           \/ stored' \in {stored, StageDocumentPut(stored, d, b)} /\ failed' = failed \union {d}
    BY <1>2 DEF AddDocument, Write
  <2>2. /\ IsMem(mem') /\ IsStore(StageDocumentPut(stored, d, b)) /\ IsStore(stored)
        /\ CacheInv(mem', mem'.cache)
        /\ \A x : Agree(mem, stored, x) =>
                    /\ Agree(mem', StageDocumentPut(stored, d, b), x)
                    /\ x # d => Agree(mem', stored, x)
    BY <2>1, OnePut DEF RagInv
  <2>3. IsStore(stored')
    BY <2>1, <2>2
  <2>4. ASSUME NEW x, x \notin failed' PROVE Agree(mem', stored', x)
    <3>1. Agree(mem, stored, x)
      BY <2>1, <2>4 DEF RagInv
    <3> QED BY <2>1, <2>2, <2>4, <3>1
  <2> QED BY <1>1, <2>2, <2>3, <2>4, NoAnswer DEF RagInv
<1>3. CASE ~ DimensionFits(b)
  <2>1. mem' = mem /\ stored' = stored /\ failed' = failed
    BY <1>3 DEF AddDocument
  <2> QED BY <1>1, <2>1, NoAnswer DEF RagInv
<1> QED BY <1>2, <1>3

LEMMA BatchInv ==
    ASSUME RagInv, NEW d \in DocIds, NEW b \in Bodies, NEW e \in DocIds, NEW c \in Bodies,
           BatchAddDocuments(d, b, e, c)
    PROVE  RagInv'
<1> DEFINE first == IndexInMemory(mem, d, b)
           put == StageDocumentPut(stored, d, b)
           both == IndexInMemory(first, e, c)
           puts == StageDocumentPut(put, e, c)
<1>1. answer' = << >> /\ clock' = clock
  BY DEF BatchAddDocuments
<1>2. /\ IsMem(first) /\ IsStore(put) /\ CacheInv(first, first.cache) /\ IsStore(stored)
      /\ \A x : Agree(mem, stored, x) =>
                  /\ Agree(first, put, x)
                  /\ x # d => Agree(first, stored, x)
  BY OnePut DEF RagInv
<1>3. \/ /\ mem' = both
         /\ \/ stored' = puts /\ failed' = failed
            \/ stored' \in {stored, puts} /\ failed' = failed \union {d, e}
      \/ mem' = first /\ stored' = stored /\ failed' = failed \union {d}
  BY DEF BatchAddDocuments, Write
<1> HIDE DEF first, put
<1>4. /\ IsMem(both) /\ IsStore(puts) /\ CacheInv(both, both.cache)
      /\ \A x : Agree(first, put, x) => Agree(both, puts, x)
  BY <1>2, OnePut
<1>5. \A x : Agree(first, stored, x) /\ x # e => Agree(both, stored, x)
  BY <1>2, OnePut
<1> HIDE DEF both, puts
<1>6. CASE /\ mem' = both
           /\ \/ stored' = puts /\ failed' = failed
              \/ stored' \in {stored, puts} /\ failed' = failed \union {d, e}
  <2>1. IsMem(mem') /\ CacheInv(mem', mem'.cache) /\ IsStore(stored')
    BY <1>2, <1>4, <1>6
  <2>2. ASSUME NEW x, x \notin failed' PROVE Agree(mem', stored', x)
    <3>1. Agree(mem, stored, x)
      BY <1>6, <2>2 DEF RagInv
    <3>2. Agree(both, puts, x)
      BY <1>2, <1>4, <3>1
    <3>3. x # d /\ x # e => Agree(both, stored, x)
      BY <1>2, <1>5, <3>1
    <3> QED BY <1>6, <2>2, <3>2, <3>3
  <2> QED BY <1>1, <2>1, <2>2, NoAnswer DEF RagInv
<1>7. CASE mem' = first /\ stored' = stored /\ failed' = failed \union {d}
  <2>1. ASSUME NEW x, x \notin failed' PROVE Agree(mem', stored', x)
    <3>1. Agree(mem, stored, x) /\ x # d
      BY <1>7, <2>1 DEF RagInv
    <3> QED BY <1>2, <1>7, <3>1
  <2> QED BY <1>1, <1>2, <1>7, <2>1, NoAnswer DEF RagInv
<1> QED BY <1>3, <1>6, <1>7

LEMMA DeleteInv ==
    ASSUME RagInv, NEW d \in DocIds, DeleteDocument(d)
    PROVE  RagInv'
<1> DEFINE gone == DeleteFromStore(stored, d)
<1>1. answer' = << >> /\ clock' = clock /\ mem' = RemoveFromMemory(mem, d)
  BY DEF DeleteDocument
<1>2. \/ stored' = gone /\ failed' = failed \ {d}
      \/ stored' \in {stored, gone} /\ failed' = failed \union {d}
  BY DEF DeleteDocument
<1>3. IsMem(mem') /\ CacheInv(mem', mem'.cache) /\ IsStore(gone) /\ IsStore(stored)
  BY <1>1, RemoveKeepsMem, RemoveKeepsCache, DeleteKeepsStore DEF RagInv
<1>4. Agree(mem', gone, d)
  BY <1>1, DeleteAgrees DEF RagInv
<1>5. ASSUME NEW x, x # d, Agree(mem, stored, x)
      PROVE  Agree(mem', gone, x) /\ Agree(mem', stored, x)
  <2>1. MemSame(mem, mem', x) /\ StoreSame(stored, gone, x) /\ StoreSame(stored, stored, x)
    BY <1>1, <1>5, RemoveElsewhere, DeleteElsewhere, StoreStays DEF RagInv
  <2> HIDE DEF gone
  <2> QED BY <1>5, <2>1, SameAgree
<1> HIDE DEF gone
<1>6. ASSUME NEW x, x \notin failed' PROVE Agree(mem', stored', x)
  <2>1. CASE x = d
    BY <1>2, <1>4, <1>6, <2>1
  <2>2. CASE x # d
    <3>1. Agree(mem, stored, x)
      BY <1>2, <1>6, <2>2 DEF RagInv
    <3> QED BY <1>2, <1>5, <2>2, <3>1
  <2> QED BY <2>1, <2>2
<1> QED BY <1>1, <1>2, <1>3, <1>6, NoAnswer DEF RagInv

\* Only the cache changes, and what is answered is a list of documents.
LEMMA CacheStep ==
    ASSUME RagInv, NEW c, mem' = [mem EXCEPT !.cache = c], CacheInv(mem, c),
           Range(answer') \subseteq DOMAIN mem.documents, clock' \in Nat,
           UNCHANGED <<stored, failed>>
    PROVE  RagInv'
<1>1. PICK f, t, v, s, k : mem = [documents |-> f, metadata |-> t, vectors |-> v, sparse |-> s, cache |-> k]
  BY DEF RagInv, IsMem
<1>2. mem' = [documents |-> f, metadata |-> t, vectors |-> v, sparse |-> s, cache |-> c]
  BY <1>1
<1>3. /\ mem'.documents = mem.documents /\ mem'.metadata = mem.metadata
      /\ mem'.vectors = mem.vectors /\ mem'.sparse = mem.sparse /\ mem'.cache = c
      /\ mem' = [documents |-> mem'.documents, metadata |-> mem'.metadata,
                 vectors |-> mem'.vectors, sparse |-> mem'.sparse, cache |-> mem'.cache]
  BY <1>1, <1>2
<1>4. IsMem(mem')
  BY <1>3 DEF RagInv, IsMem
<1>5. CacheInv(mem', mem'.cache)
  BY <1>3 DEF CacheInv, Current
<1>6. \A x : Agree(mem, stored, x) => Agree(mem', stored, x)
  BY <1>3 DEF Agree
<1> QED BY <1>3, <1>4, <1>5, <1>6 DEF RagInv

LEMMA AnswerStep ==
    ASSUME RagInv, mem' = mem, Range(answer') \subseteq DOMAIN mem.documents, clock' \in Nat,
           UNCHANGED <<stored, failed>>
    PROVE  RagInv'
BY DEF RagInv

\* A query is answered from the cache.
LEMMA HitStep ==
    ASSUME RagInv, NEW v, NEW topK \in Nat, NEW i \in BestMatch(Unexpired(mem.cache, clock), v)
    PROVE  /\ CacheInv(mem, [Unexpired(mem.cache, clock) EXCEPT ![i].accessed = clock])
           /\ Range(FirstOf(Unexpired(mem.cache, clock)[i].results, topK)) \subseteq DOMAIN mem.documents
<1> DEFINE live == Unexpired(mem.cache, clock)
<1>1. CacheInv(mem, live) /\ clock \in Nat
  BY UnexpiredCache DEF RagInv
<1>2. i \in DOMAIN live
  BY DEF BestMatch
<1> HIDE DEF live
<1>3. CacheInv(mem, [live EXCEPT ![i].accessed = clock])
  BY <1>1, <1>2, MarkedCache
<1>4. Hits(live[i].results, DOMAIN mem.documents)
  BY <1>1, <1>2 DEF CacheInv, IsEntry, Current, Hits
<1>5. Range(FirstOf(live[i].results, topK)) \subseteq DOMAIN mem.documents
  BY <1>4, FirstAreHits DEF Hits
<1> QED BY <1>3, <1>5 DEF live

\* Its hits are found and put into the cache.
NewEntry(v, hits) ==
    [embedding |-> v, results |-> hits, created |-> clock, accessed |-> clock, seen |-> Seen(hits)]

LEMMA MissStep ==
    ASSUME RagInv, NEW v \in QueryVectors, BestMatch(Unexpired(mem.cache, clock), v) = {},
           NEW hits, Hits(hits, DOMAIN mem.documents)
    PROVE  CacheInv(mem, CacheInserted(Unexpired(mem.cache, clock), NewEntry(v, hits)))
<1> DEFINE e == NewEntry(v, hits)
<1>1. CacheInv(mem, Unexpired(mem.cache, clock)) /\ clock \in Nat
  BY UnexpiredCache DEF RagInv
<1>2. /\ e.embedding = v /\ e.results = hits /\ e.created = clock /\ e.accessed = clock
      /\ e.seen = Seen(hits)
      /\ e = [embedding |-> e.embedding, results |-> e.results, created |-> e.created,
              accessed |-> e.accessed, seen |-> e.seen]
  BY DEF NewEntry
<1> HIDE DEF e
<1>3. IsEntry(e) /\ Current(mem, e)
  BY <1>1, <1>2 DEF IsEntry, Current, Hits, Seen
<1>4. CacheInv(mem, CacheInserted(Unexpired(mem.cache, clock), e))
  BY <1>1, <1>2, <1>3, InsertedCache
<1> QED BY <1>4 DEF e

LEMMA SearchInv ==
    ASSUME RagInv, NEW q \in QueryTexts, NEW embedding \in {{}} \union {{x} : x \in QueryVectors},
           NEW topK \in TopKLimits, Search(q, embedding, topK)
    PROVE  RagInv'
<1> DEFINE live == Unexpired(mem.cache, clock)
<1>1. topK \in Nat /\ 2 * topK \in Nat /\ \A v \in embedding : v \in QueryVectors
  BY RagOptions
<1>2. UNCHANGED <<stored, failed>> /\ clock' = clock /\ clock \in Nat /\ IsMem(mem)
  BY DEF Search, RagInv
<1>3. \/ \E v \in embedding :
           \/ \E i \in BestMatch(live, v) :
                /\ answer' = FirstOf(live[i].results, topK)
                /\ mem' = [mem EXCEPT !.cache = [live EXCEPT ![i].accessed = clock]]
           \/ /\ BestMatch(live, v) = {}
              /\ \E hits \in FusedHits(q, v, 2 * topK, topK) :
                   /\ answer' = FirstOf(hits, topK)
                   /\ mem' = [mem EXCEPT !.cache = CacheInserted(live, NewEntry(v, hits))]
      \/ mem' = mem /\ answer' \in Best(SparseMatches(mem.sparse, q), topK)
  BY DEF Search, AskCache, NewEntry
<1>4. CASE mem' = mem /\ answer' \in Best(SparseMatches(mem.sparse, q), topK)
  <2>1. Hits(answer', SparseMatches(mem.sparse, q))
    BY <1>2, <1>4, MatchesAreDocs, BestAreHits
  <2>2. Range(answer') \subseteq DOMAIN mem.documents
    BY <1>2, <2>1, MatchesAreDocs DEF Hits
  <2> QED BY <1>2, <1>4, <2>2, AnswerStep
<1>5. ASSUME NEW v \in embedding, NEW i \in BestMatch(live, v),
             answer' = FirstOf(live[i].results, topK),
             mem' = [mem EXCEPT !.cache = [live EXCEPT ![i].accessed = clock]]
      PROVE  RagInv'
  <2>1. /\ CacheInv(mem, [live EXCEPT ![i].accessed = clock])
        /\ Range(answer') \subseteq DOMAIN mem.documents
    BY <1>1, <1>5, HitStep
  <2> HIDE DEF live
  <2> QED BY <1>2, <1>5, <2>1, CacheStep
<1>6. ASSUME NEW v \in embedding, BestMatch(live, v) = {},
             NEW hits \in FusedHits(q, v, 2 * topK, topK), answer' = FirstOf(hits, topK),
             mem' = [mem EXCEPT !.cache = CacheInserted(live, NewEntry(v, hits))]
      PROVE  RagInv'
  <2>1. Hits(hits, DOMAIN mem.documents)
    BY <1>1, <1>2, FusedAreHits
  <2>2. CacheInv(mem, CacheInserted(live, NewEntry(v, hits)))
    BY <1>1, <1>6, <2>1, MissStep
  <2>3. Range(answer') \subseteq DOMAIN mem.documents
    BY <1>1, <1>6, <2>1, FirstAreHits DEF Hits
  <2> HIDE DEF live
  <2> QED BY <1>2, <1>6, <2>2, <2>3, CacheStep
<1> HIDE DEF live
<1> QED BY <1>3, <1>4, <1>5, <1>6

LEMMA SearchQueryInv ==
    ASSUME RagInv, NEW q \in QueryTexts, NEW v \in QueryVectors, NEW topK \in TopKLimits,
           NEW strategy, NEW filter, SearchQuery(q, v, topK, strategy, filter)
    PROVE  RagInv'
<1> DEFINE live == Unexpired(mem.cache, clock)
           fetch == 3 * topK
           Found == CASE strategy = "DenseOnly" -> Best(DOMAIN mem.vectors, fetch)
                      [] strategy = "SparseOnly" -> Best(SparseMatches(mem.sparse, q), fetch)
                      [] OTHER -> FusedHits(q, v, fetch, fetch)
<1>1. topK \in Nat /\ fetch \in Nat
  BY RagOptions
<1>2. UNCHANGED <<stored, failed>> /\ clock' = clock /\ clock \in Nat /\ IsMem(mem)
  BY DEF SearchQuery, RagInv
<1>3. \/ \E i \in BestMatch(live, v) :
           /\ answer' = FirstOf(live[i].results, topK)
           /\ mem' = [mem EXCEPT !.cache = [live EXCEPT ![i].accessed = clock]]
      \/ /\ BestMatch(live, v) = {}
         /\ \E hits \in Found :
              /\ answer' \in Best(Range(hits), topK)
              /\ mem' = [mem EXCEPT !.cache = CacheInserted(live, NewEntry(v, hits))]
      \/ /\ \E hits \in Found :
              answer' \in Best({d \in Range(hits) : mem.metadata[d] \subseteq filter}, topK)
         /\ mem' = mem
  BY DEF SearchQuery, AskCache, NewEntry
<1>4. ASSUME NEW hits \in Found PROVE Hits(hits, DOMAIN mem.documents)
  <2>1. \/ hits \in Best(DOMAIN mem.vectors, fetch)
        \/ hits \in Best(SparseMatches(mem.sparse, q), fetch)
        \/ hits \in FusedHits(q, v, fetch, fetch)
    BY <1>4
  <2> HIDE DEF fetch
  <2>2. CASE hits \in Best(DOMAIN mem.vectors, fetch)
    BY <1>2, <2>2, MatchesAreDocs, BestAreHits DEF Hits
  <2>3. CASE hits \in Best(SparseMatches(mem.sparse, q), fetch)
    BY <1>2, <2>3, MatchesAreDocs, BestAreHits DEF Hits
  <2>4. CASE hits \in FusedHits(q, v, fetch, fetch)
    BY <1>1, <1>2, <2>4, FusedAreHits
  <2> QED BY <2>1, <2>2, <2>3, <2>4
<1> HIDE DEF Found, fetch
<1>5. ASSUME NEW hits \in Found, NEW S \in SUBSET Range(hits), answer' \in Best(S, topK)
      PROVE  Range(answer') \subseteq DOMAIN mem.documents
  <2>1. S \subseteq DOMAIN mem.documents /\ IsFiniteSet(DOMAIN mem.documents)
    BY <1>2, <1>4, MatchesAreDocs DEF Hits
  <2>2. IsFiniteSet(S)
    BY <2>1, FS_Subset
  <2>3. Hits(answer', S)
    BY <1>5, <2>2, BestAreHits
  <2> QED BY <2>1, <2>3 DEF Hits
<1>6. ASSUME NEW i \in BestMatch(live, v), answer' = FirstOf(live[i].results, topK),
             mem' = [mem EXCEPT !.cache = [live EXCEPT ![i].accessed = clock]]
      PROVE  RagInv'
  <2>1. /\ CacheInv(mem, [live EXCEPT ![i].accessed = clock])
        /\ Range(answer') \subseteq DOMAIN mem.documents
    BY <1>1, <1>6, HitStep
  <2> HIDE DEF live
  <2> QED BY <1>2, <1>6, <2>1, CacheStep
<1>7. ASSUME BestMatch(live, v) = {}, NEW hits \in Found, answer' \in Best(Range(hits), topK),
             mem' = [mem EXCEPT !.cache = CacheInserted(live, NewEntry(v, hits))]
      PROVE  RagInv'
  <2>1. CacheInv(mem, CacheInserted(live, NewEntry(v, hits)))
    BY <1>4, <1>7, MissStep
  <2>2. Range(answer') \subseteq DOMAIN mem.documents
    BY <1>5, <1>7
  <2> HIDE DEF live
  <2> QED BY <1>2, <1>7, <2>1, <2>2, CacheStep
<1>8. ASSUME NEW hits \in Found, mem' = mem,
             answer' \in Best({d \in Range(hits) : mem.metadata[d] \subseteq filter}, topK)
      PROVE  RagInv'
  <2>1. Range(answer') \subseteq DOMAIN mem.documents
    BY <1>5, <1>8
  <2> QED BY <1>2, <1>8, <2>1, AnswerStep
<1> HIDE DEF live
<1> QED BY <1>3, <1>6, <1>7, <1>8

LEMMA RestartInv == ASSUME RagInv, Restart PROVE RagInv'
<1>1. mem' = Recovered(stored) /\ answer' = << >> /\ stored' = stored /\ clock' = clock
  BY DEF Restart
<1>2. IsMem(mem') /\ mem'.cache = << >> /\ \A d : Agree(mem', stored, d)
  BY <1>1, RestartMem DEF RagInv
<1> QED BY <1>1, <1>2, NoAnswer, EmptyCache DEF RagInv

LEMMA RagNextInv == RagInv /\ [RagNext]_ragVars => RagInv'
<1> SUFFICES ASSUME RagInv, [RagNext]_ragVars PROVE RagInv'
  OBVIOUS
<1>1. CASE UNCHANGED ragVars
  BY <1>1 DEF RagInv, ragVars
<1>2. CASE ClearCache
  <2>1. /\ mem' = [mem EXCEPT !.cache = << >>] /\ UNCHANGED <<stored, failed>>
        /\ answer' = << >> /\ clock' \in Nat
    BY <1>2 DEF ClearCache, RagInv
  <2>2. Range(answer') \subseteq DOMAIN mem.documents
    BY <2>1, NoAnswer
  <2> QED BY <2>1, <2>2, EmptyCache, CacheStep
<1>3. CASE Tick
  <2>1. mem' = mem /\ UNCHANGED <<stored, failed>> /\ answer' = << >> /\ clock' \in Nat
    BY <1>3 DEF Tick, RagInv
  <2> QED BY <2>1, NoAnswer, AnswerStep
<1>4. CASE \E q \in QueryTexts, v \in QueryVectors, k \in TopKLimits :
             \/ \E strategy \in {"Fused", "DenseOnly", "SparseOnly"} : SearchQuery(q, v, k, strategy, {})
             \/ SearchQuery(q, v, k, "Fused", Metas)
  BY <1>4, SearchQueryInv
<1> QED BY <1>1, <1>2, <1>3, <1>4, AddInv, BatchInv, DeleteInv, SearchInv, RestartInv DEF RagNext

-----------------------------------------------------------------------------
(* Theorems                                                                *)

\* Whatever documents are added, replaced, removed, lost and recovered, in any order and with
\* any failures of the store, the sparse index is that of the documents in memory, with no
\* posting of what is gone and the lengths adding up, and metadata and vectors are of no
\* others (engine.rs:92-225, sparse.rs:98-126).
THEOREM IndexIsOfTheDocuments == RagSpec => []IndexesAgree
<1>1. RagInit => RagInv
  BY RagInitInv
<1>2. RagInv /\ [RagNext]_ragVars => RagInv'
  BY RagNextInv
<1>3. RagInv => IndexesAgree
  BY MemAgrees DEF RagInv
<1> QED BY <1>1, <1>2, <1>3, PTL DEF RagSpec

\* No answer and no cached result lists a document that is gone or has changed since, whatever
\* the capacity, the threshold and the time to live; and no two entries of the cache would
\* answer each other's queries (engine.rs:98, 218, 281, cache.rs:116-216).
THEOREM CachedResultsAreCurrent == RagSpec => []SemanticCacheSound
<1>1. RagInit => RagInv
  BY RagInitInv
<1>2. RagInv /\ [RagNext]_ragVars => RagInv'
  BY RagNextInv
<1>3. RagInv => SemanticCacheSound
  <2> SUFFICES ASSUME RagInv PROVE SemanticCacheSound
    OBVIOUS
  <2>1. CacheInv(mem, mem.cache) /\ Range(answer) \subseteq DOMAIN mem.documents
    BY DEF RagInv
  <2> QED BY <2>1 DEF CacheInv, Spread, Current, SemanticCacheSound, CachedAreCurrent, CacheIsSpread
<1> QED BY <1>1, <1>2, <1>3, PTL DEF RagSpec

\* A restart finds every document for which no call failed as it is in memory, and so does
\* get_document (engine.rs:162-225, store.rs:60-255).
THEOREM RestartFindsTheDocuments == RagSpec => []RestartKeepsIndex
<1>1. RagInit => RagInv
  BY RagInitInv
<1>2. RagInv /\ [RagNext]_ragVars => RagInv'
  BY RagNextInv
<1>3. RagInv => RestartKeepsIndex
  <2> SUFFICES ASSUME RagInv, NEW d \in DocIds \ failed
               PROVE  /\ Optional(Recovered(stored).documents, d) = Optional(mem.documents, d)
                      /\ Optional(Recovered(stored).vectors, d) = Optional(mem.vectors, d)
                      /\ d \in DOMAIN mem.documents =>
                           mem.metadata[d] \in {{}, Recovered(stored).metadata[d]}
                      /\ {b.text : b \in GetDocument(d)} = Optional(mem.documents, d)
    BY DEF RestartKeepsIndex
  <2>1. Agree(mem, stored, d) /\ IsStore(stored)
    BY DEF RagInv
  <2>2. /\ Agree(Recovered(stored), stored, d) /\ Recovered(stored).documents = stored.docs
        /\ d \in DOMAIN stored.docs => Recovered(stored).metadata[d] = Optional(stored.metas, d)
    BY <2>1, RestartMem
  <2>3. d \in DOMAIN mem.documents <=> d \in DOMAIN stored.docs
    BY <2>1 DEF Agree, Optional
  <2>4. {b.text : b \in GetDocument(d)} = Optional(mem.documents, d)
    <3>1. CASE d \in DOMAIN stored.docs
      <4>1. GetDocument(d) = {LoadDocument(stored, d)} /\ LoadDocument(stored, d).text = stored.docs[d]
        BY <3>1 DEF GetDocument, LoadDocument
      <4>2. {b.text : b \in GetDocument(d)} = {stored.docs[d]}
        BY <4>1
      <4> QED BY <2>1, <3>1, <4>2 DEF Agree, Optional
    <3>2. CASE d \notin DOMAIN stored.docs
      <4>1. GetDocument(d) = {}
        BY <2>3, <3>2 DEF GetDocument
      <4> QED BY <2>3, <3>2, <4>1 DEF Optional
    <3> QED BY <3>1, <3>2
  <2> QED BY <2>1, <2>2, <2>3, <2>4 DEF Agree
<1> QED BY <1>1, <1>2, <1>3, PTL DEF RagSpec
=============================================================================
