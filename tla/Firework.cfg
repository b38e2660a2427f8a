SPECIFICATION LiveSpec
CONSTANTS
  CotSizes <- MCCotSizes
  TiaSizes <- MCTiaSizes
  CotPuts = {1}
  Volleys = {2}
  Shots = {1, 2}
  Giats = {2}
  Types <- AllTypes
  Beyond = 14
INVARIANTS IInv EachBursts
PROPERTIES BurstsAtTop ShowGoesOn
