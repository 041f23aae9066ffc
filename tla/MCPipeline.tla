----------------------------- MODULE MCPipeline -----------------------------
(* Command lines for Pipeline: both platforms, images of one and two hif     *)
(* files, given and temporary work directories, and every kind of base.      *)
EXTENDS Pipeline

Conf(platform, dir, hifs, disc, apploader) ==
    [platform |-> platform, dir |-> dir, hifs |-> hifs, disc |-> disc, apploader |-> apploader]

MCConfs ==
    {Conf("wii", "given", 2, "none", FALSE),
     Conf("wii", "given", 1, "none", FALSE),
     Conf("wii", "temp", 1, "none", FALSE),
     Conf("gc", "given", 1, "copied", FALSE),
     Conf("gc", "temp", 1, "inPlace", TRUE),
     Conf("gc", "temp", 1, "copied", TRUE),
     Conf("gc", "temp", 1, "none", FALSE)}
=============================================================================
