--------------------------- MODULE MCRcclExchange ---------------------------
(***************************************************************************)
(* The model-checking instance of RcclExchange: a job of three ranks,      *)
(* which are a ring north and south and each their own neighbour east and  *)
(* west.                                                                   *)
(***************************************************************************)
EXTENDS RcclExchange

\* Each mode with the sends that make it the harder: messages that pile up,
\* and a stream that runs ahead of its host with every send held back.
EachMode == {<<"conservative", TRUE>>, <<"stream_ordered", FALSE>>}

=============================================================================
