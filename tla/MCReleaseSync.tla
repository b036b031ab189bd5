---------------------------- MODULE MCReleaseSync ----------------------------
EXTENDS ReleaseSync

(* A chat agent and the agent the host has in its own process, bound to      *)
(* providers; the host has none for "cloud".                                 *)
chat  == <<"chat", "local">>
own   == <<"own", "python">>
moved == <<"own", "cloud">>
cloud == <<"chat", "cloud">>

MCHostManifest == {own, chat}
MCPython       == {own}
MCUnsupported  == {moved, cloud}
MCProfile      == <<"live", "local">>
MCSetting      == <<"tuned", "local">>

Manifests == {{chat, moved}, {cloud}}
Plain     == {{chat, MCProfile}}
=============================================================================
