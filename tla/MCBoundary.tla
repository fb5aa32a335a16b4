------------------------------ MODULE MCBoundary ------------------------------
(***************************************************************************)
(* The boundary for TLC, with the conversions of what crosses it: they     *)
(* have no behaviour of their own, and hold of every logger, channel and   *)
(* connection the boundary gets to see.                                    *)
(***************************************************************************)
EXTENDS Boundary, Conversions

\* Once install_python_logger has the callback in place, the filter it has set lets
\* exactly the lines through that the logger would keep.
LinesAsLogged == stored[Logger] # {} => FilterCovers

\* A channel that has been created treats a message as its options say, as far as one limit
\* was asked for; of two it keeps one (create_data_channel).
ChannelsAsAsked == (\E d \in Chans : life[d] # "absent") => OptionsKept

\* A connection that has been created has its ICE servers with the credentials that were
\* given and no others, on the host that was given (IceServer.to_url).
ServersAsGiven == (\E p \in Conns : life[p] # "absent") => CredentialsOnce
===============================================================================
