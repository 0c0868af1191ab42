------------------------ MODULE MCInstallExtension ------------------------
(* Platforms on both sides of every boundary in the code. *)
EXTENDS InstallExtension

MCPlatforms == {<<3, 9>>, <<3, 10>>, <<3, 13>>, <<3, 14>>, <<3, 15>>, <<3, 16>>, <<3, 27>>,
                <<3, 28>>, <<5, 1>>}
=============================================================================
