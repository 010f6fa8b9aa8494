---------------------------- MODULE MCDesktop ----------------------------
(* The desktop's workloads for TLC. *)
EXTENDS Desktop

\* Nothing happens: the base the workloads are built from.
Quiet ==
  [clients |-> Clients, demos |-> {}, draws |-> 0, keys |-> 0, mouse |-> 0, resizes |-> 0,
   hits |-> HitZones, exits |-> FALSE, nomem |-> FALSE, commands |-> {"present"}]

\* One terminal fed by its shell, typed into and resized; two windows and
\* the mouse; clients that come late, are refused, or end; a terminal whose
\* window is resized again and again while it presents.
Mixes ==
  { [Quiet EXCEPT !.clients = {1}, !.draws = 3, !.keys = 2, !.mouse = 2, !.resizes = 1],
    [Quiet EXCEPT !.clients = {1, 2}, !.mouse = 3, !.resizes = 1],
    [Quiet EXCEPT !.clients = {1, 2}, !.keys = 1, !.mouse = 1, !.exits = TRUE, !.nomem = TRUE],
    [Quiet EXCEPT !.clients = {1, 2}, !.draws = 1, !.keys = 1, !.exits = TRUE,
                  !.commands = {"present", "close"}],
    [Quiet EXCEPT !.clients = {1}, !.draws = 1, !.keys = 4],
    [Quiet EXCEPT !.mouse = 1],
    [Quiet EXCEPT !.clients = {1, 2}, !.demos = {2}, !.draws = 1],
    [Quiet EXCEPT !.clients = {1}, !.draws = 3, !.mouse = 6, !.resizes = 3, !.hits = {"resize"}] }

\* demo-client on its own
Demo == { [Quiet EXCEPT !.demos = {1}, !.clients = {1}] }
=============================================================================
