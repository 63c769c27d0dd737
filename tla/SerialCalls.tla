---------------------------- MODULE SerialCalls ----------------------------
(***************************************************************************)
(* Remote calls as the callers of a server with one thread see them: on    *)
(* all connections together one call is served at a time.  A connection's  *)
(* calls run in the order of their numbers, none twice, some perhaps       *)
(* never; and a call that ran is answered at once, under its own number,   *)
(* or not at all, before any other call of any connection runs.            *)
(* BlazeClient.tla is shown to implement this for the connections whose    *)
(* reads never ended inside a header and never ran a command that nobody   *)
(* sent; nothing is said of another one.                                   *)
(***************************************************************************)
EXTENDS Naturals

CONSTANTS Connections,
          Numbers           \* of calls; a connection's grow

VARIABLES trusted,          \* connections of which something is said
          served,           \* connection |-> the calls that ran
          replied,          \* connection |-> the calls that were answered
          due               \* the answer that is still to be written, if any

cvars == <<trusted, served, replied, due>>

CInit == /\ trusted = Connections
         /\ served = [c \in Connections |-> {}]
         /\ replied = [c \in Connections |-> {}]
         /\ due = {}

\* Call n runs, when no answer is due and after the calls before it; it is to
\* be answered or not.
Serve(c, n) == /\ due = {}
               /\ c \in trusted
               /\ \A m \in served[c] : m < n
               /\ served' = [served EXCEPT ![c] = @ \cup {n}]
               /\ due' \in {{}, {<<c, n>>}}
               /\ UNCHANGED <<trusted, replied>>

\* The answer that is due goes out ...
Reply(c, n) == /\ due = {<<c, n>>}
               /\ replied' = [replied EXCEPT ![c] = @ \cup {n}]
               /\ due' = {}
               /\ UNCHANGED <<trusted, served>>

\* ... or its connection is gone.
GiveUp == due' = {} /\ UNCHANGED <<trusted, served, replied>>

\* A header is cut or a body taken for one, and nothing more is said of this
\* connection.
Distrust(c) == /\ due = {}
               /\ trusted' = trusted \ {c}
               /\ served' = [served EXCEPT ![c] = {}]
               /\ replied' = [replied EXCEPT ![c] = {}]
               /\ UNCHANGED due

CNext == \/ \E c \in Connections, n \in Numbers : Serve(c, n) \/ Reply(c, n)
         \/ GiveUp
         \/ \E c \in trusted : Distrust(c)

CSpec == CInit /\ [][CNext]_cvars

=============================================================================
