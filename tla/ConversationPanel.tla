-------------------------- MODULE ConversationPanel --------------------------
(***************************************************************************)
(* The dashboard's conversation page in one browser tab: a conversation is *)
(* selected in the history or started, loaded, and written to.  Every      *)
(* request is asked, carried out by the server and answered at times of    *)
(* its own, and the panel is rendered from whatever has arrived.  The      *)
(* server's side of a message, a turn of the assistant, is one step here.  *)
(***************************************************************************)
EXTENDS Naturals, Sequences

CONSTANTS
  Existing,          \* number of conversations there are when the page opens
  MaxConversations,  \* bound: conversations, the started ones included
  VoiceCalls,        \* those that are phone calls
  MaxSent,           \* bound: messages sent
  MaxSelected,       \* bound: conversations selected
  MaxPanelFaults     \* bound: requests that fail or whose answer is lost

ASSUME PanelAssumption ==
  /\ {Existing, MaxConversations, MaxSent, MaxSelected, MaxPanelFaults} \subseteq Nat
  /\ Existing <= MaxConversations
  /\ VoiceCalls \subseteq 1..Existing

VARIABLES
  conversations,  \* number of conversations on the server
  sentTo,         \* for each message sent, the conversation it was sent to
  transcript,     \* for each conversation, its messages whose turn was committed
  selected,       \* page.tsx: the conversation that is highlighted, 0: none
  panel,          \* what the panel shows
  loads,          \* fetches of a conversation that are under way
  newest,         \* number of the last fetch; the ones before it are cancelled
  sending,        \* the message under way
  starting,       \* the start under way
  choices,        \* conversations selected
  panelFaults,    \* requests that failed
  \* history of what is shown, since it was last loaded
  unloaded,       \* loading what is selected failed
  unsynced         \* a message crossed the load, or failed

panelVars == <<conversations, sentTo, transcript, selected, panel, loads, newest,
               sending, starting, choices, panelFaults, unloaded, unsynced>>
serverVars == <<conversations, transcript>>

Conversations == 1..conversations
NotSending == [at |-> "none", to |-> 0]
NotStarting == [at |-> "none", id |-> 0]

\* One message: who it is by - what a customer wrote is pending until it is loaded -
\* and of which send.
Message(by, n) == [by |-> by, n |-> n]

\* conversation: the one that is written to; call: the one whose phone call is
\* described, 0: none; messages: what is listed.
Nothing == [conversation |-> 0, call |-> 0, messages |-> <<>>]

PanelInit ==
  /\ conversations = Existing
  /\ sentTo = <<>>
  /\ transcript = [c \in 0..MaxConversations |-> <<>>]
  /\ selected = 0
  /\ panel = Nothing
  /\ loads = {}
  /\ newest = 0
  /\ sending = NotSending
  /\ starting = NotStarting
  /\ choices = 0
  /\ panelFaults = 0
  /\ unloaded = FALSE
  /\ unsynced = FALSE

\* The effect that loads runs when another conversation is selected, and cancels
\* the fetch of the one before.
Selecting(c) ==
  /\ selected' = c
  /\ IF c = selected THEN UNCHANGED <<loads, newest>>
     ELSE /\ newest' = newest + 1
          /\ loads' = loads \union
               {[number |-> newest + 1, of |-> c, at |-> "asked", messages |-> <<>>,
                 crossed |-> sending.to = c]}

PanelFault == panelFaults < MaxPanelFaults /\ panelFaults' = panelFaults + 1

-----------------------------------------------------------------------------
(* Selecting and loading.                                                  *)

SelectConversation(c) ==
  /\ c \in Conversations /\ c # selected
  /\ choices < MaxSelected /\ choices' = choices + 1
  /\ Selecting(c)
  /\ UNCHANGED <<serverVars, sentTo, panel, sending, starting, panelFaults,
                 unloaded, unsynced>>

LoadRead(load) ==
  /\ load.at = "asked"
  /\ loads' = (loads \ {load})
                \union {[load EXCEPT !.at = "read", !.messages = transcript[load.of]]}
  /\ UNCHANGED <<serverVars, sentTo, selected, panel, newest, sending, starting,
                 choices, panelFaults, unloaded, unsynced>>

\* Slip: an answer is shown, whatever has been selected since it was asked for.
AnyLoad(load) == TRUE

\* The `cancelled` flag of the effect that asked.
CurrentLoad(load) == load.number = newest

\* The call of a conversation by phone is fetched next.
LoadArrives(load) ==
  /\ load.at = "read"
  /\ LET callNext == IF CurrentLoad(load) /\ load.of \in VoiceCalls
                       THEN {[load EXCEPT !.at = "call"]} ELSE {}
     IN  loads' = (loads \ {load}) \union callNext
  /\ IF CurrentLoad(load)
       THEN /\ panel' = [conversation |-> load.of, messages |-> load.messages,
                         call |-> IF load.of \in VoiceCalls THEN panel.call ELSE 0]
            /\ unloaded' = FALSE
            /\ unsynced' = load.crossed
       ELSE UNCHANGED <<panel, unloaded, unsynced>>
  /\ UNCHANGED <<serverVars, sentTo, selected, newest, sending, starting, choices,
                 panelFaults>>

CallArrives(load) ==
  /\ load.at = "call"
  /\ loads' = loads \ {load}
  /\ panel' = IF CurrentLoad(load) THEN [panel EXCEPT !.call = load.of] ELSE panel
  /\ UNCHANGED <<serverVars, sentTo, selected, newest, sending, starting, choices,
                 panelFaults, unloaded, unsynced>>

\* Without its details what was shown stays, without its call none is shown.
LoadFails(load) ==
  /\ PanelFault
  /\ loads' = loads \ {load}
  /\ panel' = IF CurrentLoad(load) /\ load.at = "call"
                 THEN [panel EXCEPT !.call = 0] ELSE panel
  /\ unloaded' = (unloaded \/ (CurrentLoad(load) /\ load.at # "call"))
  /\ UNCHANGED <<serverVars, sentTo, selected, newest, sending, starting, choices,
                 unsynced>>

-----------------------------------------------------------------------------
(* Starting a conversation.                                                *)

StartConversation ==
  /\ starting.at = "none" /\ conversations < MaxConversations
  /\ starting' = [NotStarting EXCEPT !.at = "asked"]
  /\ UNCHANGED <<serverVars, sentTo, selected, panel, loads, newest, sending, choices,
                 panelFaults, unloaded, unsynced>>

CreateConversation ==
  /\ starting.at = "asked"
  /\ conversations' = conversations + 1
  /\ starting' = [at |-> "done", id |-> conversations + 1]
  /\ UNCHANGED <<transcript, sentTo, selected, panel, loads, newest, sending, choices,
                 panelFaults, unloaded, unsynced>>

\* The messages are cleared; one that was selected already is not loaded again.
StartAnswered ==
  /\ starting.at = "done"
  /\ starting' = NotStarting
  /\ panel' = [panel EXCEPT !.conversation = starting.id, !.messages = <<>>]
  /\ Selecting(starting.id)
  /\ unsynced' = (unsynced \/ selected = starting.id)
  /\ UNCHANGED <<serverVars, sentTo, sending, choices, panelFaults, unloaded>>

StartFails ==
  /\ PanelFault
  /\ starting.at # "none"
  /\ starting' = NotStarting
  /\ UNCHANGED <<serverVars, sentTo, selected, panel, loads, newest, sending, choices,
                 unloaded, unsynced>>

-----------------------------------------------------------------------------
(* Writing to it.                                                          *)

\* What is written is shown at once; one message is under way at a time.
SendMessage ==
  LET to == panel.conversation
  IN  /\ to # 0 /\ sending.at = "none" /\ Len(sentTo) < MaxSent
      /\ sentTo' = Append(sentTo, to)
      /\ sending' = [at |-> "asked", to |-> to]
      /\ panel' = [panel EXCEPT !.messages = Append(@, Message("pending", Len(sentTo) + 1))]
      /\ loads' = {[l EXCEPT !.crossed = @ \/ l.of = to] : l \in loads}
      /\ UNCHANGED <<serverVars, selected, newest, starting, choices, panelFaults,
                     unloaded, unsynced>>

CommitMessage ==
  /\ sending.at = "asked"
  /\ sending' = [sending EXCEPT !.at = "done"]
  /\ transcript' = [transcript EXCEPT ![sending.to] =
       Append(Append(@, Message("customer", Len(sentTo))),
              Message("assistant", Len(sentTo)))]
  /\ UNCHANGED <<conversations, sentTo, selected, panel, loads, newest, starting, choices,
                 panelFaults, unloaded, unsynced>>

\* The reply is added to what is shown, and its conversation selected.
SendAnswered ==
  /\ sending.at = "done"
  /\ sending' = NotSending
  /\ panel' = [panel EXCEPT !.conversation = sending.to,
                            !.messages = Append(@, Message("assistant", Len(sentTo)))]
  /\ Selecting(sending.to)
  /\ UNCHANGED <<serverVars, sentTo, starting, choices, panelFaults, unloaded, unsynced>>

\* A message that is taken off the list: the others keep their order, and here
\* their places.
Gone == Message("gone", 0)
NotPending(messages) ==
  [i \in DOMAIN messages |-> IF messages[i].by = "pending" THEN Gone ELSE messages[i]]

\* Every message still marked pending goes, the answered ones too.
SendFails ==
  /\ PanelFault
  /\ sending.at # "none"
  /\ sending' = NotSending
  /\ panel' = [panel EXCEPT !.messages = NotPending(@)]
  /\ unsynced' = TRUE
  /\ UNCHANGED <<serverVars, sentTo, selected, loads, newest, starting, choices, unloaded>>

PanelNext ==
  \/ \E c \in Conversations : SelectConversation(c)
  \/ \E load \in loads :
       LoadRead(load) \/ LoadArrives(load) \/ CallArrives(load) \/ LoadFails(load)
  \/ StartConversation \/ CreateConversation \/ StartAnswered \/ StartFails
  \/ SendMessage \/ CommitMessage \/ SendAnswered \/ SendFails

PanelSpec == PanelInit /\ [][PanelNext]_panelVars

-----------------------------------------------------------------------------
(* Properties.                                                             *)

\* Every variable holds what the code can put there.
PanelTypeOK ==
  /\ conversations \in Existing..MaxConversations
  /\ sentTo \in Seq(Conversations)
  /\ {selected, panel.conversation, panel.call, sending.to} \subseteq Conversations \union {0}
  /\ \A load \in loads : load.number \in 1..newest /\ load.of \in Conversations
  /\ \A i \in DOMAIN panel.messages :
       panel.messages[i] # Gone => panel.messages[i].n \in DOMAIN sentTo

\* Nothing that was asked for is still to come.
Settled ==
  /\ sending = NotSending /\ starting = NotStarting
  /\ \A load \in loads : ~CurrentLoad(load)

\* When all is answered and loading did not fail, what is shown is what is
\* selected: the conversation written to, its call, every message, however the
\* answers crossed the selecting (chat-panel.tsx, page.tsx).
ShownIsSelected ==
  Settled /\ ~unloaded =>
    /\ panel.conversation = selected
    /\ panel.call \in {0, selected}
    /\ \A i \in DOMAIN panel.messages :
         panel.messages[i] # Gone => sentTo[panel.messages[i].n] = selected

\* The messages of a list are those of a transcript, in its order.
Lists(messages, entries) ==
  /\ Len(messages) = Len(entries)
  /\ \A i \in 1..Len(entries) :
       /\ messages[i].n = entries[i].n
       /\ messages[i].by = entries[i].by
            \/ (messages[i].by = "pending" /\ entries[i].by = "customer")

\* And, unless a message failed or crossed the load, it is the whole transcript,
\* each message once.
TranscriptShown ==
  Settled /\ ~unloaded /\ ~unsynced => Lists(panel.messages, transcript[selected])

PanelInv == PanelTypeOK /\ ShownIsSelected /\ TranscriptShown
=============================================================================
