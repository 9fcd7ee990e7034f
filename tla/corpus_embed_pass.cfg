SPECIFICATION Spec
CONSTANTS
  c1 = c1
  c2 = c2
  a = a
  b = b
  h = h
  k = k
  m1 = m1
  m2 = m2
  None = None
  Calls = {c1, c2}
  Docs <- OneDoc
  MaxChunks = 2
  Texts = {a, b}
  Heads = {h, k}
  Files <- TwoFiles
  Models = {m1}
PROPERTY EmbedPassRaisesOnlyInVain
