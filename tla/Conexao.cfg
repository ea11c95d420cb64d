\* main and two callers, the tables and indexes of the schema, two outages of SQL
\* Server and a crash.
SPECIFICATION FairSpec
CONSTANTS
    uuid = uuid  numero = numero  notaId = notaId
    Inicio = inicio
    Chamador = {c1, c2}
    NTabelas = 2
    Indice = {uuid, numero, notaId}
    TabelaDe <- MCTabelaDe
    MaxQuedas = 2
    MaxReinicios = 1
INVARIANTS TypeOK ConexaoMigrada SaudeDoPoolUsado RecusaTemCausa
PROPERTY Reconecta
