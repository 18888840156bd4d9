\* Stacking, the thumbnail-aside effect and the window selection filter composed:
\* thumbnails follow adds, removes and resizes; every selection is answered once, to its requester.
CONSTANTS
  a = a
  b = b
  appA = appA
  appB = appB
  p1 = p1
  p2 = p2
  t1 = t1
  t2 = t2
  NoWindow = NoWindow
  NoPosition = NoPosition
  NoRequest = NoRequest
  Windows = {a, b}
  LayerOrder <- MCLayerOrder
  Special = {}
  LayerOf <- MCLayerOf
  ClientOf <- MCClientOf
  LeadOf <- MCLeadOf
  GroupOf <- MCGroupOf
  MaxRequests = 2
  MaxWidth = 4
  Spacing = 1
  AreaRight = 100
  AreaBottom = 100
  AreaHeight = 6
SPECIFICATION Spec
VIEW StateView
INVARIANT TypeOKAll
INVARIANT IndicesFollowAddOrder
INVARIANT ArrangedForCurrentSizes
INVARIANT AnsweredOnce
