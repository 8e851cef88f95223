------------------------------ MODULE MCWebSocket ------------------------------
EXTENDS WebSocket

Frame(op, fin, marked, code, size) ==
  [op |-> op, fin |-> fin, marked |-> marked, code |-> code, size |-> size]

(* A message as a whole, with the marker, without and empty; in fragments, *)
(* of which the last may make it too long; one of 127 bytes and one that is *)
(* too long by itself; a close frame that is expected and one that is not. *)
MCFrames ==
  {Frame("text", TRUE, marked, NoClose, 5) : marked \in BOOLEAN}
  \cup {Frame("text", TRUE, FALSE, NoClose, size) : size \in {0, 127, 201}}
  \cup {Frame("text", FALSE, TRUE, NoClose, 5)}
  \cup {Frame("cont", TRUE, FALSE, NoClose, size) : size \in {5, 196}}
  \cup {Frame(op, TRUE, FALSE, NoClose, 5) : op \in {"ping", "pong"}}
  \cup {Frame("close", TRUE, FALSE, code, 5) : code \in {1000, 1001}}

(* No matcher, a substring, .* and ^$.                                     *)
MCConfigs ==
  {[ping |-> ping, close |-> close, want |-> accepts # {}, accepts |-> accepts, read |-> read] :
     ping \in BOOLEAN, close \in {NoClose, 1000}, read \in BOOLEAN,
     accepts \in {{}, {"marked"}, Kinds, {"empty"}}}
=============================================================================
