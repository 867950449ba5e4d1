------------------------- MODULE MCWarehouseMoves -------------------------
(* Two positions in two warehouses, and what requests ask of them.           *)
EXTENDS WarehouseMoves

CONSTANTS main, branch, kit, headset

Item(kind, from, to, qty) == [kind |-> kind, from |-> from, to |-> to, qty |-> qty]
At(kind, c, qty) == Item(kind, c, c, qty)

MCJobs == {At("receive", <<main, kit>>, 1), At("expense", <<main, kit>>, 1),
           At("count", <<main, kit>>, 1),
           At("ship", <<main, kit>>, 2), At("ship", <<main, headset>>, 1),
           At("reserve", <<main, headset>>, 1),
           Item("transfer", <<main, kit>>, <<branch, kit>>, 1),
           Item("transfer", <<branch, headset>>, <<main, headset>>, 1)}
MCStocks == {[c \in Cells |-> IF c[1] = main THEN 2 ELSE 1]}
=============================================================================
