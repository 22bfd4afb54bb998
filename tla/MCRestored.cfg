SPECIFICATION GrabSpec
CONSTANTS
  Download = {d1, d2}
  Nzb = {}
  InGateway = {d1, d2}
  Path = {path}
  None = None
  WebhookCall = {c1}
  MaxImports = 2
  BatchSize = 1
PROPERTIES
  NoOlderRestored
