---------------------------- MODULE MCGcSection ----------------------------
(* Four pages, of which two would lie at the same place: one with slots of  *)
(* two units and one with slots of four, so that an address that was a slot *)
(* can come to be inside one.                                               *)
EXTENDS GcSection

Page(start, slot_size, total_slots) ==
    [start |-> start, slot_size |-> slot_size, total_slots |-> total_slots]

MCLayouts ==
    {Page(14, 2, 1), Page(26, 2, 3), Page(28, 4, 1), Page(38, 2, 1)}

MCAddresses == {14, 26, 28, 30, 38}

=============================================================================
