-------------------------- MODULE McpNotifications --------------------------
(***************************************************************************)
(* The MCP server between its threads (src/src/mcp/server.rs and           *)
(* notifications.rs): one serves the client, which lists what there is and *)
(* sets the log level; others register tools, prompts and resources and    *)
(* log.  A change or a message is broadcast to the observers one after the *)
(* other, with the lock of their list shared meanwhile.                    *)
(*                                                                         *)
(* An observer stands for a client that hears notifications: it lists what *)
(* there is once it has subscribed, and again what is said to have         *)
(* changed.  What it has seen is its view.                                 *)
(***************************************************************************)
EXTENDS Integers, Sequences, Functions

CONSTANTS
    Notifiers,      \* threads that register and log
    Observers,
    LogLevels,      \* numbers, the higher the more severe
    MaxRegistered,  \* bound: registrations of each kind
    MaxMessages     \* bound: calls of log and of logging/setLevel

ASSUME LevelsAreNumbers == LogLevels \subseteq Nat

Kinds == {"tools", "prompts", "resources"}

VARIABLES
    registry,   \* how many of each kind are registered
    minLevel,   \* min_log_level
    observers,  \* the observers, in the order they came
    todo,       \* what each notifier is at
    view,       \* what each observer has seen; before it has listed, nothing
    heard,      \* observer, not in the code: messages that were delivered, with the lowest
                \* minimum there was since their log was called
    messages

noteVars == <<registry, minLevel, observers, todo, view, heard, messages>>

Idle == [at |-> "idle"]

NoteInit ==
    /\ registry = [k \in Kinds |-> 1]
    /\ minLevel \in LogLevels
    /\ observers = << >>
    /\ todo = [t \in Notifiers |-> Idle]
    /\ view = [o \in Observers |-> [k \in Kinds |-> 0]]
    /\ heard = {} /\ messages = 0

-----------------------------------------------------------------------------
(* broadcast                                                               *)

\* The observers' list is locked from here to the last of them.
Broadcasting(t) == todo[t].at = "broadcast"

StartBroadcast(t) ==
    /\ todo[t].at = "notify"
    /\ todo' = [todo EXCEPT ![t].at = "broadcast", ![t].left = observers]
    /\ UNCHANGED <<registry, minLevel, observers, view, heard, messages>>

\* on_notification: the observer lists what has changed, or keeps the message.
Deliver(t) ==
    /\ Broadcasting(t) /\ todo[t].left # << >>
    /\ LET note == todo[t].note  o == Head(todo[t].left) IN
         /\ view' = IF note.kind = "message" THEN view
                    ELSE [view EXCEPT ![o][note.kind] = registry[note.kind]]
         /\ heard' = IF note.kind = "message"
                       THEN heard \union {[level |-> note.level, lowest |-> todo[t].lowest]}
                       ELSE heard
    /\ todo' = [todo EXCEPT ![t].left = Tail(@)]
    /\ UNCHANGED <<registry, minLevel, observers, messages>>

EndBroadcast(t) ==
    /\ Broadcasting(t) /\ todo[t].left = << >>
    /\ todo' = [todo EXCEPT ![t] = Idle]
    /\ UNCHANGED <<registry, minLevel, observers, view, heard, messages>>

\* add_observer waits for the broadcasts.
Subscribe(o) ==
    /\ o \notin Range(observers)
    /\ ~ \E t \in Notifiers : Broadcasting(t)
    /\ observers' = Append(observers, o)
    /\ UNCHANGED <<registry, minLevel, todo, view, heard, messages>>

\* An observer asks for all lists, once it is one.
ListAll(o) ==
    /\ o \in Range(observers)
    /\ \E k \in Kinds : view[o][k] = 0
    /\ view' = [view EXCEPT ![o] = registry]
    /\ UNCHANGED <<registry, minLevel, observers, todo, heard, messages>>

-----------------------------------------------------------------------------
(* register_tool, register_prompt and register_resource_provider           *)

Changed(kind) == [at |-> "notify", note |-> [kind |-> kind, level |-> 0], left |-> << >>, lowest |-> 0]

\* Faulty: the change is announced before it is made.
RegisterAnnounced(t, kind) ==
    /\ registry[kind] < MaxRegistered
    /\ \/ /\ todo[t].at = "idle"
          /\ todo' = [todo EXCEPT ![t] = Changed(kind)] /\ UNCHANGED registry
       \/ /\ todo[t].at = "broadcast" /\ todo[t].left = << >> /\ todo[t].note.kind = kind
          /\ registry' = [registry EXCEPT ![kind] = @ + 1]
          /\ todo' = [todo EXCEPT ![t] = Idle]
    /\ UNCHANGED <<minLevel, observers, view, heard, messages>>

\* A provider of resources is registered without a notification.
Register(t, kind) ==
    /\ todo[t].at = "idle" /\ registry[kind] < MaxRegistered
    /\ registry' = [registry EXCEPT ![kind] = @ + 1]
    /\ todo' = [todo EXCEPT ![t] = IF kind = "resources" THEN Idle ELSE Changed(kind)]
    /\ UNCHANGED <<minLevel, observers, view, heard, messages>>

-----------------------------------------------------------------------------
(* log and logging/setLevel                                                *)

\* log reads the minimum ...
Log(t, level) ==
    /\ todo[t].at = "idle" /\ messages < MaxMessages
    /\ messages' = messages + 1
    /\ todo' = [todo EXCEPT ![t] =
                  IF level >= minLevel
                    THEN [at |-> "notify", note |-> [kind |-> "message", level |-> level],
                          left |-> << >>, lowest |-> minLevel]
                    ELSE Idle]
    /\ UNCHANGED <<registry, minLevel, observers, view, heard>>

\* ... which the client may set anew before the message is broadcast.
SetMinLogLevel(level) ==
    /\ level # minLevel /\ messages < MaxMessages
    /\ messages' = messages + 1
    /\ minLevel' = level
    /\ todo' = [t \in Notifiers |->
                  IF todo[t].at # "idle" /\ todo[t].note.kind = "message" /\ level < todo[t].lowest
                    THEN [todo[t] EXCEPT !.lowest = level] ELSE todo[t]]
    /\ UNCHANGED <<registry, observers, view, heard>>

NoteNext ==
    \/ \E t \in Notifiers :
         \/ StartBroadcast(t) \/ Deliver(t) \/ EndBroadcast(t)
         \/ \E kind \in Kinds : Register(t, kind)
         \/ \E level \in LogLevels : Log(t, level)
    \/ \E o \in Observers : Subscribe(o) \/ ListAll(o)
    \/ \E level \in LogLevels : SetMinLogLevel(level)

NoteSpec == NoteInit /\ [][NoteNext]_noteVars

-----------------------------------------------------------------------------
(* Properties                                                              *)

\* A client that lists what there is after it subscribed, and again whenever it is told of a
\* change, knows all tools and prompts as soon as nobody has still to tell it, whatever was
\* registered meanwhile (server.rs:79-97, notifications.rs:96-135).
ViewsCatchUp ==
    \A o \in Range(observers), kind \in {"tools", "prompts"} :
        \/ \E k \in Kinds : view[o][k] = 0
        \/ view[o][kind] = registry[kind]
        \/ \E t \in Notifiers : /\ todo[t].at \in {"notify", "broadcast"} /\ todo[t].note.kind = kind
                                /\ todo[t].at = "broadcast" => o \in Range(todo[t].left)

\* No message is delivered that was less severe than every minimum during its log.
LoggedAboveMinimum == \A m \in heard : m.level >= m.lowest

\* An observer ends up knowing what there is, and hears nothing it did not ask for.
ObserversCatchUp == ViewsCatchUp /\ LoggedAboveMinimum

\* The same for resources.
ResourceViewsCatchUp ==
    \A o \in Range(observers) :
        (\E k \in Kinds : view[o][k] = 0) \/ view[o]["resources"] = registry["resources"]

\* No message is delivered that is less severe than the minimum then.
DeliveredAboveMinimum ==
    [][\A t \in DOMAIN todo :
         Broadcasting(t) /\ todo[t].note.kind = "message" /\ heard' # heard /\ todo'[t] # todo[t]
           => todo[t].note.level >= minLevel]_noteVars
=============================================================================
