\* restack's comment: a window restacked under the active client goes below all windows of the active application.
CONSTANTS
  a = a
  b = b
  c = c
  d = d
  appA = appA
  appB = appB
  NoWindow = NoWindow
  Windows = {a, b, c, d}
  LayerOrder <- MCLayerOrder
  Special = {d}
  LayerOf <- MCLayerOf
  ClientOf <- MCClientOf
  LeadOf <- MCLeadOf
  GroupOf <- MCGroupOf
  MaxLive = 3
SPECIFICATION Spec
PROPERTY RestackBelowActiveApp
