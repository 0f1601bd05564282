------------------------------- MODULE MCSetup -------------------------------
EXTENDS SetupService

\* Any line before one that asks; more where they matter: a mapping set twice
\* and asked for, requests that fill the queue, short lines behind one.
MCScripts ==
  {<<kind, "get">> : kind \in Kinds}
  \union {<<"set", "set", "get">>, <<"hook", "hook">>,
          <<"hook", "bare", "bare", "bare">>}
=============================================================================
