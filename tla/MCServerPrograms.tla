-------------------------- MODULE MCServerPrograms --------------------------
(* Two releases of an archive that holds a library, the server binary and  *)
(* a second library after it; the two names sort as they are unpacked.     *)
EXTENDS ServerPrograms
MCReleases == {"b4585", "b4600"}
MCName     == <<"ggml.dll", "llama-server.exe", "llama.dll">>
MCFields   == {"DisplayName", "AppDirectory", "AppStdout", "AppStderr"}
=============================================================================
