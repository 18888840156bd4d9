\* Window stacking (raise and lower of transients and groups, restacking under the active client)
\* and the highlight-window effect that fades the stacking order around highlighted windows.
CONSTANTS
  a = a
  b = b
  c = c
  d = d
  appA = appA
  appB = appB
  NoWindow = NoWindow
  Windows = {a, b, c, d}
  LayerOrder <- MCLayerOrder
  Special = {d}
  LayerOf <- MCLayerOf
  ClientOf <- MCClientOf
  LeadOf <- MCLeadOf
  GroupOf <- MCGroupOf
  MaxLive = 3
SPECIFICATION Spec
VIEW StateView
INVARIANT TypeOKAll
INVARIANT HighlightStateShown
PROPERTY RaiseStacksLeadsBeneath
PROPERTY LowerStacksGroupBeneath
PROPERTY RevertStartsFromShown
