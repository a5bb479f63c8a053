---------------------------- MODULE VideoService ----------------------------
(***************************************************************************)
(* The service that captures one display of a host for all its viewers     *)
(* (server/service.rs, server/video_service.rs).  Connections subscribe    *)
(* and leave at any time under the service's lock; the service's thread    *)
(* takes newcomers in between two frames, sends every encoded frame to the *)
(* subscribers and waits until their connections have taken it.            *)
(*                                                                         *)
(* Only the first frame of an encoder can be decoded on its own: a frame   *)
(* is good for a viewer that was sent every earlier frame of its encoder.  *)
(***************************************************************************)
EXTENDS Naturals, Sequences, FiniteSets

CONSTANTS Conns,
          Closing,    \* connections may close, not only unsubscribe
          Timeouts,   \* the thread may give up waiting (3 s)
          MaxQueue,   \* bound: frames a connection's task has not taken yet
          MaxJoins    \* bound: subscriptions of one connection

VideoAssumption ==
    /\ IsFiniteSet(Conns) /\ Closing \in BOOLEAN /\ Timeouts \in BOOLEAN
    /\ MaxQueue \in Nat \ {0} /\ MaxJoins \in Nat \ {0}

VARIABLES member,    \* out, new (new_subscribes) or sub (subscribes)
          conn,      \* up, closing (notified) or closed
          joins,     \* subscriptions so far
          refresh,   \* OPTION_REFRESH
          thread,    \* where the service's thread is
          switch,    \* the snapshot's callback asked for another encoder
          synced,    \* who was sent every frame of the encoder
          queue,     \* rx_video of each connection: good or bad frames
          sent,      \* send_conn_ids
          fetched,   \* fetched_conn_ids
          notes,     \* FRAME_FETCHED_NOTIFIERS of this display
          told,      \* DISPLAY_CONN_IDS of this display
          picture,   \* what the viewer sees: none, good, bad
          asking     \* viewers whose refresh_video is on its way

hub == <<member, conn, joins, refresh>>
encoder == <<switch, synced>>
waiting == <<sent, fetched, notes, told>>
vars == <<hub, thread, encoder, waiting, queue, picture, asking>>

Subs == {c \in Conns : member[c] = "sub"}
News == {c \in Conns : member[c] = "new"}

Init ==
    /\ member = [c \in Conns |-> "out"]
    /\ conn = [c \in Conns |-> "up"]
    /\ joins = [c \in Conns |-> 0]
    /\ refresh = FALSE /\ thread = "idle" /\ switch = FALSE
    /\ synced = {}
    /\ queue = [c \in Conns |-> <<>>]
    /\ sent = {} /\ fetched = {} /\ notes = {} /\ told = {}
    /\ picture = [c \in Conns |-> "none"]
    /\ asking = {}

-----------------------------------------------------------------------------
(* The connections *)

(* Mutant: a newcomer is sent frames at once. *)
SubscribeDirectly(c) ==
    /\ conn[c] = "up" /\ member[c] = "out" /\ joins[c] < MaxJoins
    /\ member' = [member EXCEPT ![c] = "sub"]
    /\ joins' = [joins EXCEPT ![c] = @ + 1]
    /\ picture' = [picture EXCEPT ![c] = "none"]
    /\ UNCHANGED <<conn, refresh, thread, encoder, waiting, queue, asking>>

(* on_subscribe: a service with a snapshot keeps newcomers apart *)
Subscribe(c) ==
    /\ conn[c] = "up" /\ member[c] = "out" /\ joins[c] < MaxJoins
    /\ member' = [member EXCEPT ![c] = "new"]
    /\ joins' = [joins EXCEPT ![c] = @ + 1]
    /\ picture' = [picture EXCEPT ![c] = "none"]
    /\ UNCHANGED <<conn, refresh, thread, encoder, waiting, queue, asking>>

(* on_unsubscribe, while the connection goes on with another display *)
Unsubscribe(c) ==
    /\ conn[c] = "up" /\ member[c] # "out"
    /\ member' = [member EXCEPT ![c] = "out"]
    /\ UNCHANGED <<conn, joins, refresh, thread, encoder, waiting, queue, picture, asking>>

(* The connection's task ends: notify_video_frame_fetched_by_conn_id *)
Close(c) ==
    /\ Closing /\ conn[c] = "up"
    /\ conn' = [conn EXCEPT ![c] = "closing"]
    /\ notes' = IF c \in told THEN notes \union {c} ELSE notes
    /\ queue' = [queue EXCEPT ![c] = <<>>]
    /\ UNCHANGED <<member, joins, refresh, thread, encoder, sent, fetched, told, picture, asking>>

(* ... and then remove_connection *)
Remove(c) ==
    /\ conn[c] = "closing"
    /\ conn' = [conn EXCEPT ![c] = "closed"]
    /\ member' = [member EXCEPT ![c] = "out"]
    /\ UNCHANGED <<joins, refresh, thread, encoder, waiting, queue, picture, asking>>

(* The connection's task takes a frame, says so and sends it on *)
Deliver(c) ==
    /\ conn[c] = "up" /\ queue[c] # <<>>
    /\ notes' = notes \union {c}
    /\ picture' = [picture EXCEPT ![c] = Head(queue[c])]
    /\ queue' = [queue EXCEPT ![c] = Tail(@)]
    /\ asking' = IF Head(queue[c]) = "bad" THEN asking \union {c} ELSE asking
    /\ UNCHANGED <<hub, thread, encoder, sent, fetched, told>>

(* A viewer asks for another encoder for every frame it cannot decode *)
AskRefresh(c) ==
    /\ conn[c] = "up" /\ c \in asking
    /\ asking' = asking \ {c}
    /\ refresh' = TRUE
    /\ UNCHANGED <<member, conn, joins, thread, encoder, waiting, queue, picture>>

-----------------------------------------------------------------------------
(* The service's thread *)

(* GenericService::run calls run while there are subscribers of any kind;  *)
(* run sets up a capturer and an encoder                                   *)
SetUp ==
    /\ thread = "idle" /\ Subs \union News # {}
    /\ thread' = "ready"
    /\ synced' = Conns /\ switch' = FALSE
    /\ UNCHANGED <<hub, waiting, queue, picture, asking>>

(* The new encoder answers the refresh asked for until now *)
ClearRefresh ==
    /\ thread = "ready"
    /\ refresh' = FALSE
    /\ sent' = {}
    /\ thread' = "check"
    /\ UNCHANGED <<member, conn, joins, encoder, fetched, notes, told, queue, picture, asking>>

(* The top of the loop: nobody left, a refresh, or the next frame *)
Check ==
    /\ thread = "check"
    /\ IF Subs \union News = {} \/ refresh
       THEN thread' = "idle" /\ told' = {} /\ sent' = sent
       ELSE thread' = "frame" /\ sent' = {} /\ told' = told
    /\ UNCHANGED <<hub, encoder, fetched, notes, queue, picture, asking>>

(* The capturer has no frame, or its frame cannot be encoded *)
NoFrame ==
    /\ thread \in {"frame", "encode"}
    /\ thread' = "wait"
    /\ fetched' = {}
    /\ UNCHANGED <<hub, encoder, sent, notes, told, queue, picture, asking>>

(* Mutant: newcomers are looked at only when nobody watches. *)
SnapshotAlone ==
    /\ thread = "frame"
    /\ IF News = {} \/ Subs # {} THEN thread' = "encode" /\ switch' = FALSE
       ELSE thread' = "swap" /\ switch' = FALSE
    /\ UNCHANGED <<hub, synced, waiting, queue, picture, asking>>

(* snapshot: its callback looks whether somebody watches already *)
Snapshot ==
    /\ thread = "frame"
    /\ IF News = {} THEN thread' = "encode" /\ switch' = FALSE
       ELSE thread' = "swap" /\ switch' = (Subs # {})
    /\ UNCHANGED <<hub, synced, waiting, queue, picture, asking>>

(* ServiceSwap::drop takes the newcomers in, those since the look as well *)
Swap ==
    /\ thread = "swap"
    /\ member' = [c \in Conns |-> IF c \in News THEN "sub" ELSE member[c]]
    /\ thread' = IF switch THEN "idle" ELSE "encode"
    /\ told' = IF switch THEN {} ELSE told
    /\ UNCHANGED <<conn, joins, refresh, encoder, sent, fetched, notes, queue, picture, asking>>

(* encode_to_message, send_video_frame and set_send *)
Encode ==
    /\ thread = "encode"
    /\ \A c \in Subs : Len(queue[c]) < MaxQueue
    /\ queue' = [c \in Conns |->
                   IF c \in Subs /\ conn[c] = "up"
                   THEN Append(queue[c], IF c \in synced THEN "good" ELSE "bad")
                   ELSE queue[c]]
    /\ synced' = synced \intersect Subs
    /\ sent' = Subs
    /\ told' = IF Subs # {} THEN Subs ELSE told
    /\ fetched' = {}
    /\ thread' = "wait"
    /\ UNCHANGED <<hub, switch, notes, picture, asking>>

(* try_wait_next: all the notifications there are, until there are enough *)
Fetch ==
    /\ thread = "wait"
    /\ sent # {} => notes # {}
    /\ fetched' = IF sent = {} THEN fetched ELSE fetched \union notes
    /\ notes' = IF sent = {} THEN notes ELSE {}
    /\ thread' = IF Cardinality(fetched') >= Cardinality(sent) THEN "leave" ELSE "wait"
    /\ UNCHANGED <<hub, encoder, sent, told, queue, picture, asking>>

(* Three seconds have passed *)
GiveUp ==
    /\ Timeouts
    /\ thread = "wait" /\ sent # {}
    /\ thread' = "leave"
    /\ UNCHANGED <<hub, encoder, waiting, queue, picture, asking>>

(* DISPLAY_CONN_IDS forgets the frame *)
NextFrame ==
    /\ thread = "leave"
    /\ told' = {}
    /\ thread' = "check"
    /\ UNCHANGED <<hub, encoder, sent, fetched, notes, queue, picture, asking>>

Next ==
    \/ \E c \in Conns : \/ Subscribe(c) \/ Unsubscribe(c) \/ Close(c) \/ Remove(c)
                        \/ Deliver(c) \/ AskRefresh(c)
    \/ SetUp \/ ClearRefresh \/ Check \/ NoFrame \/ Snapshot \/ Swap \/ Encode
    \/ Fetch \/ GiveUp \/ NextFrame

Spec == Init /\ [][Next]_vars

Thread == SetUp \/ ClearRefresh \/ Check \/ Snapshot \/ Swap \/ Encode
          \/ Fetch \/ GiveUp \/ NextFrame

(* The thread and the connections' tasks go on, a screen that changes is   *)
(* captured again and again, and a viewer that cannot decode says so.      *)
FairSpec ==
    /\ Spec
    /\ WF_vars(Thread) /\ SF_vars(Snapshot) /\ SF_vars(Encode)
    /\ \A c \in Conns : WF_vars(Deliver(c)) /\ WF_vars(Remove(c)) /\ WF_vars(AskRefresh(c))
-----------------------------------------------------------------------------
(* The shape of the state.                                                 *)
TypeOK ==
    /\ member \in [Conns -> {"out", "new", "sub"}]
    /\ conn \in [Conns -> {"up", "closing", "closed"}]
    /\ joins \in [Conns -> 0..MaxJoins]
    /\ {refresh, switch} \subseteq BOOLEAN
    /\ thread \in {"idle", "ready", "check", "frame", "swap", "encode", "wait", "leave"}
    /\ \A c \in Conns : Len(queue[c]) <= MaxQueue
    /\ synced \union sent \union fetched \union notes \union told \union asking \subseteq Conns
    /\ picture \in [Conns -> {"none", "good", "bad"}]

(* "so that new sub and old sub share the same encoder after switch"       *)
(* (handle_one_frame): two viewers of one encoder that joined once can     *)
(* both decode it, or neither can.                                         *)
SharedEncoder ==
    thread = "encode" =>
        \A c, d \in Subs : c \in synced /\ joins[c] = 1 => d \in synced

(* "break if all connections have received current frame" (run): unless it *)
(* gave up, the thread goes on only when every connection it sent the      *)
(* frame to has taken it or is gone.                                       *)
AllFetched ==
    Fetch /\ thread' = "leave" =>
        \A c \in sent : conn[c] = "up" => queue[c] = <<>>

(* DISPLAY_CONN_IDS records "which connections need to be notified when    *)
(* the client is closing": nobody waits for a connection that has ended.   *)
NoneAwaitedInVain ==
    thread = "wait" =>
        \A c \in sent : conn[c] # "up" => c \in notes \union fetched

(* A viewer that gets frames it cannot decode sees the display again: its  *)
(* refresh is not lost, whatever the thread was doing.                     *)
Spoilt(c) == picture[c] = "bad" /\ member[c] = "sub"
PictureReturns == \A c \in Conns : []<>~Spoilt(c)

(* A newcomer sees the display in the end.                                 *)
Served(c) == picture[c] = "good" \/ member[c] = "out"
NewcomerIsServed == \A c \in Conns : []<>Served(c)
=============================================================================
