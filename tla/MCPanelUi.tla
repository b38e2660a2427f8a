------------------------------ MODULE MCPanelUi -------------------------------
(* PanelUi with short times that keep their order.  The numeric parameters have *)
(* a single value, the LED type two.                                           *)
EXTENDS PanelUi

MCLedTypes == {"LED_6803", "LED_1903"}
OneValue == [f \in Fields |-> 1]
===============================================================================
