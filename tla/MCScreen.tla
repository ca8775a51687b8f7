------------------------------ MODULE MCScreen ------------------------------
(***************************************************************************)
(* Instances of Screen for TLC.  A tick is three seconds here: five, the   *)
(* least staleness threshold, lie between two ticks, and six, that of an   *)
(* interval of two seconds, on one.                                        *)
(***************************************************************************)
EXTENDS Screen

LOCAL Spec_(name, host, needs, log) ==
  [name |-> name, host |-> host, scheme |-> "http", needs |-> needs, max_running |-> <<>>, log_file |-> log]
LOCAL Every(ms) == [NoNumbers EXCEPT !.refresh_interval_ms = <<ms>>]
LOCAL Cli(numbers, list, off) ==
  [numbers |-> numbers, endpoints |-> list, no_record |-> off, record |-> <<>>, config |-> FALSE]

\* Nothing; one endpoint without a name; two of three named alike; too fast.
MCCommandLines ==
  { Cli(NoNumbers, <<>>, FALSE),
    Cli(NoNumbers, <<Spec_(<<Blank>>, 7, {}, FALSE)>>, TRUE),
    Cli(NoNumbers, <<Spec_(<<1>>, 7, {}, FALSE), Spec_(<<2>>, 7, {}, FALSE), Spec_(<<1>>, 8, {}, FALSE)>>, FALSE),
    Cli(Every(250), <<>>, FALSE) }

LOCAL Pair ==
  [EmptyFile EXCEPT !.numbers = Every(2000),
                    !.endpoints = <<Spec_(<<2>>, 7, {}, FALSE), Spec_(<<1>>, 8, {"TOKEN"}, TRUE)>>]
LOCAL NoFile == [found |-> FALSE, valid |-> FALSE, config |-> EmptyFile]
LOCAL Env(xdg, home, secrets, opens) ==
  [XDG_CONFIG_HOME |-> xdg, HOME |-> home, XDG_DATA_HOME |-> FALSE, secrets |-> secrets, database |-> opens,
   files |-> [given |-> NoFile,
              xdg |-> [found |-> TRUE, valid |-> TRUE, config |-> Pair],
              home |-> [found |-> TRUE, valid |-> FALSE, config |-> EmptyFile]]]

\* A file of two endpoints, with the second one's secret, and without it or a
\* database; no files, and nowhere to record; a file that cannot be parsed.
MCEnvironments ==
  { Env(TRUE, TRUE, {"TOKEN"}, TRUE), Env(TRUE, TRUE, {}, FALSE), Env(FALSE, FALSE, {}, TRUE), Env(FALSE, TRUE, {}, TRUE) }

LOCAL Loaded(running, gen) ==
  [l \in Loads |-> IF l = "running" THEN running ELSE IF l = "waiting" THEN <<>> ELSE gen]
LOCAL Series(loads, ttft, used, held) == [loads |-> loads, ttft |-> ttft, usage |-> used, capacity |-> held]

\* A busy model; two, of which one tells less; a server with nothing to say.
MCSnapshots ==
  { "m" :> Series(Loaded(<<2>>, <<5>>), <<3>>, <<60>>, <<4>>),
    "m" :> Series(Loaded(<<1>>, <<>>), <<>>, <<20>>, <<>>) @@ "k" :> Series(Loaded(<<>>, <<7>>), <<4>>, <<90>>, <<8>>),
    <<>> }

\* The sizes around which columns and panes change, at any height.
MCTerminals == {[w |-> w, h |-> h] : w \in {1, 20, 35, 36, 80, 90, 99, 100, 110, 149, 150, 160, 240}, h \in 1 .. 70}

\* No room for cards; room for all of it.
MCSizes == {[w |-> 90, h |-> 22], [w |-> 160, h |-> 60]}
\* A usual terminal.
OneSize == {[w |-> 80, h |-> 24]}
=============================================================================
